---- MODULE Spec2Model ----
(***************************************************************************)
(* Dependency-graph analysis engine of the "Overwrite" extension:          *)
(*   - Selection Orchestrator  (applyRoot / removeRoot, selection records) *)
(*   - Dependency Analyzer     (bounded breadth-first traversal)           *)
(*   - Path Resolver           (PathResolver.resolve and its tsconfig      *)
(*                              cache)                                     *)
(*   - Import Extractor        (ImportParser.parseImports)                 *)
(*   - File Explorer           (subtree selection in the webview)          *)
(*   - XML path resolution     (resolveXmlPathToUri)                       *)
(*   - Token counting          (countTokens in the webview)                *)
(* Each subsystem has its own specification over the shared variables; the *)
(* variables of the other subsystems stay at their initial values.         *)
(***************************************************************************)
EXTENDS Integers, Sequences, FiniteSets, TLC

VARIABLES
    \* ---- Selection Orchestrator ----
    records,      \* path -> [selectedBy, minDepth]  (SelectionRecord per file)
    activeRoots,  \* roots applied and not removed since
    update,       \* the SelectionUpdate returned by the last call, with its call
    prevUpdate,   \* what the call before the last returned (op, root, added, removed, touched)
    rootGraphs,   \* active root -> the nodes (path -> depth) of the graph it was applied with
    replayed,     \* a consumer's copy of the selection, kept from the updates alone
    conc,         \* caller -> its applyRoot/removeRoot call in progress, record by record
    \* ---- Dependency Analyzer (one analyze call) ----
    world,        \* the file set the call runs against
    anPc,         \* "idle" | "running" | "done"
    anRoot, anMaxDepth,
    queue, visited, graph,
    parsed,       \* path -> number of times parseImports read it in this call
    pushed,       \* every {path, depth} item ever put on the queue in this call
    \* ---- Path Resolver (one PathResolver instance) ----
    tsconfigCache, pathMappings, baseUrl,   \* the instance's fields
    calls,                                  \* caller -> its resolve call: position,
                                            \* arguments, result and the I/O it did
    invalidation,                           \* the loads clearCache() found in flight, and
                                            \* whether no load begun since has finished
    \* ---- Smart Selection Service (analysis requests in flight) ----
    inflight,     \* request -> its analyze call (own queue, visited, graph) and
                  \* the cancellation/timeout signal raised for it
    delivered,    \* the requests whose graph was handed on, in order
    \* ---- ImportParserCache (the entry of one file) ----
    clock,        \* Date.now()
    file,         \* [mtime, version]: version counts the file's modifications
    cache,        \* the file's entry [imports, timestamp], or NoEntry
    readers,      \* reader -> its parseImports call through the cache
    \* ---- Exclusion Filter (one analysis session) ----
    exclusion,    \* the session's configuration and ignore file, the ignore rules
                  \* it has cached, and the last shouldExclude call with its result
    \* ---- File Explorer (webview) ----
    selectedUris,     \* the selectedUris prop: the selection the parent holds
    selectedUrisRef,  \* selectedUrisRef.current, assigned at each render
    timers,           \* the setTimeout(..., 0) callbacks not yet run, oldest first
    \* ---- XML path resolution ----
    xml,              \* the last resolveXmlPathToUri call: its workspace, arguments, outcome
    \* ---- token counting (webview) ----
    pendingTokenRequests,  \* the requestIds of the module's Map
    tokenRequests,    \* request -> its countTokens call: text length, listener, timer,
                      \* abort flag, and the values resolve was called with
    tokenMessages     \* the extension's side: requests answered, responses not yet delivered

selVars == <<records, activeRoots, update, prevUpdate, rootGraphs, replayed, conc>>
anVars  == <<world, anPc, anRoot, anMaxDepth, queue, visited, graph, parsed, pushed>>
rsVars  == <<tsconfigCache, pathMappings, baseUrl, calls, invalidation>>
svcVars == <<inflight, delivered>>
cacheVars == <<clock, file, cache, readers>>
exVars  == <<exclusion>>
feVars  == <<selectedUris, selectedUrisRef, timers>>
xmlVars == <<xml>>
tokVars == <<pendingTokenRequests, tokenRequests, tokenMessages>>
uiVars  == <<feVars, xmlVars, tokVars>>
vars    == <<selVars, anVars, rsVars, svcVars, cacheVars, exVars, uiVars>>

NULL == "null"

Min(a, b) == IF a <= b THEN a ELSE b

Range(s) == {s[i] : i \in DOMAIN s}

(***************************************************************************)
(* Selection Orchestrator                                                  *)
(***************************************************************************)

\* Bounds of the orchestrator's inputs.
MaxGraphDepth == 2     \* depths of the nodes of a graph handed to applyRoot

SelFiles == {"A", "X"}
SelRoots == {"A", "B", "C"}

\* graph.nodes of an analysed graph, as path -> depth: the root at depth 0 and
\* any set of other files at depths 1..MaxGraphDepth.
GraphsOf(root) ==
    { [p \in DOMAIN f \cup {root} |-> IF p = root THEN 0 ELSE f[p]] :
        f \in UNION { [S -> 1..MaxGraphDepth] : S \in SUBSET (SelFiles \ {root}) } }

Selected(recs) == {p \in DOMAIN recs : recs[p].selectedBy # {}}

\* SelectionUpdate, with the call that returned it (op, root, and for applyRoot
\* the nodes of the graph it was given, as path -> depth)
NoUpdate == [op |-> "none", root |-> NULL, nodes |-> << >>,
             added |-> {}, removed |-> {}, metadata |-> << >>]

\* The records after applyRoot(root, g): every node of g other than the root has
\* root in its selectedBy (record created if absent) and minDepth lowered to the
\* node's depth.
ApplyRecords(recs, root, g) ==
    LET touched == DOMAIN g \ {root}
    IN [p \in DOMAIN recs \cup touched |->
          IF p \in touched
          THEN IF p \in DOMAIN recs
               THEN [selectedBy |-> recs[p].selectedBy \cup {root},
                     minDepth   |-> Min(recs[p].minDepth, g[p])]
               ELSE [selectedBy |-> {root}, minDepth |-> g[p]]
          ELSE recs[p]]

ApplyAdded_All(recs, root, g) == DOMAIN g \ {root}

\* `added` of applyRoot: the nodes not selected by any root before the call.
ApplyAdded(recs, root, g) ==
    {p \in DOMAIN g \ {root} : p \notin Selected(recs)}

RemoveRecords_Clear(recs, root) ==
    [p \in DOMAIN recs |->
        IF root \in recs[p].selectedBy
        THEN [recs[p] EXCEPT !.selectedBy = {}] ELSE recs[p]]

\* The records after removeRoot(root): root leaves every selectedBy set.
RemoveRecords(recs, root) ==
    [p \in DOMAIN recs |->
        [recs[p] EXCEPT !.selectedBy = recs[p].selectedBy \ {root}]]

RemoveRemoved_All(recs, root) ==
    {p \in DOMAIN recs : root \in recs[p].selectedBy}

\* `removed` of removeRoot: the records whose selectedBy became empty by this call.
RemoveRemoved(recs, root) ==
    {p \in DOMAIN recs : recs[p].selectedBy = {root}}

\* metadata of an update: the records the call touched, as they are after it
Brief(u) == [op |-> u.op, root |-> u.root, added |-> u.added, removed |-> u.removed,
             touched |-> DOMAIN u.metadata]

Metadata(recs, touched) ==
    [p \in touched |-> [selectionKind |-> "auto-dependency",
                        selectedBy |-> recs[p].selectedBy,
                        depth |-> recs[p].minDepth]]

applyRoot(root, g) ==
    /\ records' = ApplyRecords(records, root, g)
    /\ activeRoots' = activeRoots \cup {root}
    /\ update' = [op |-> "applyRoot", root |-> root, nodes |-> g,
                  added |-> ApplyAdded(records, root, g), removed |-> {},
                  metadata |-> Metadata(ApplyRecords(records, root, g),
                                        DOMAIN g \ {root})]
    /\ prevUpdate' = Brief(update)
    /\ UNCHANGED <<conc, anVars, rsVars, svcVars, cacheVars, exVars, uiVars>>

removeRoot(root) ==
    /\ records' = RemoveRecords(records, root)
    /\ activeRoots' = activeRoots \ {root}
    /\ update' = [op |-> "removeRoot", root |-> root, nodes |-> << >>,
                  added |-> {}, removed |-> RemoveRemoved(records, root),
                  metadata |-> Metadata(RemoveRecords(records, root),
                                  {p \in DOMAIN records : root \in records[p].selectedBy})]
    /\ prevUpdate' = Brief(update)
    /\ UNCHANGED <<conc, anVars, rsVars, svcVars, cacheVars, exVars, uiVars>>

SelApply == \E root \in SelRoots : \E g \in GraphsOf(root) :
                applyRoot(root, g) /\ UNCHANGED <<rootGraphs, replayed>>

SelRemove == \E root \in SelRoots : removeRoot(root) /\ UNCHANGED <<rootGraphs, replayed>>

SelNext == SelApply \/ SelRemove

\* ---- calls of different callers, interleaved record by record ----
SelCallers == {"u1", "u2"}

NoCall == [pc |-> "idle", op |-> "none", root |-> NULL, g |-> << >>, todo |-> {},
           added |-> {}, removed |-> {}]

NoCalls == [c \in SelCallers |-> NoCall]

\* the graph cut down to the root and one node
OnlyNode(root, g, p) == [q \in {root, p} |-> g[q]]

\* the records with the record of p replaced by what removeRoot gives it
RemoveAt(recs, root, p) ==
    IF p \in DOMAIN recs THEN [recs EXCEPT ![p] = RemoveRecords(recs, root)[p]] ELSE recs

\* a caller enters applyRoot(root, g): the records of the graph's nodes are to do
beginApply(c, root, g) ==
    /\ conc[c].pc = "idle"
    /\ conc' = [conc EXCEPT ![c] = [pc |-> "running", op |-> "applyRoot", root |-> root,
                                     g |-> g, todo |-> DOMAIN g \ {root},
                                     added |-> {}, removed |-> {}]]
    /\ activeRoots' = activeRoots \cup {root}
    /\ UNCHANGED <<records, update, prevUpdate, rootGraphs, replayed, anVars, rsVars, svcVars, cacheVars, exVars, uiVars>>

\* a caller enters removeRoot(root): every record is to do
beginRemove(c, root) ==
    /\ conc[c].pc = "idle"
    /\ conc' = [conc EXCEPT ![c] = [pc |-> "running", op |-> "removeRoot", root |-> root,
                                     g |-> << >>, todo |-> SelFiles,
                                     added |-> {}, removed |-> {}]]
    /\ activeRoots' = activeRoots \ {root}
    /\ UNCHANGED <<records, update, prevUpdate, rootGraphs, replayed, anVars, rsVars, svcVars, cacheVars, exVars, uiVars>>

\* the read-modify-write of one record by a call in progress, serialized per path
stepRecord(c, p) ==
    /\ conc[c].pc = "running"
    /\ p \in conc[c].todo
    /\ IF conc[c].op = "applyRoot"
       THEN /\ records' = ApplyRecords(records, conc[c].root,
                                       OnlyNode(conc[c].root, conc[c].g, p))
            /\ conc' = [conc EXCEPT ![c].todo = @ \ {p},
                           ![c].added = @ \cup ApplyAdded(records, conc[c].root,
                                              OnlyNode(conc[c].root, conc[c].g, p))]
       ELSE /\ records' = RemoveAt(records, conc[c].root, p)
            /\ conc' = [conc EXCEPT ![c].todo = @ \ {p},
                           ![c].removed = @ \cup (RemoveRemoved(records, conc[c].root) \cap {p})]
    /\ UNCHANGED <<activeRoots, update, prevUpdate, rootGraphs, replayed, anVars, rsVars, svcVars, cacheVars, exVars, uiVars>>

\* the call returns its SelectionUpdate (added, removed)
finishCall(c) ==
    /\ conc[c].pc = "running"
    /\ conc[c].todo = {}
    /\ conc' = [conc EXCEPT ![c].pc = "done"]
    /\ UNCHANGED <<records, activeRoots, update, prevUpdate, rootGraphs, replayed, anVars, rsVars, svcVars, cacheVars, exVars, uiVars>>

ConcApply  == \E c \in SelCallers : \E root \in SelRoots : \E g \in GraphsOf(root) :
                 beginApply(c, root, g)
ConcRemove == \E c \in SelCallers : \E root \in SelRoots : beginRemove(c, root)
ConcStep   == \E c \in SelCallers : \E p \in SelFiles : stepRecord(c, p)
ConcFinish == \E c \in SelCallers : finishCall(c)

ConcNext == ConcApply \/ ConcRemove \/ ConcStep \/ ConcFinish

\* The same calls, with the graph each active root was last applied with kept
\* beside the records.
NoneReplayed == [files |-> {}, addedTwice |-> FALSE, removedUnadded |-> FALSE]

\* a consumer applies one SelectionUpdate to its copy: `added` joins, `removed` leaves
Replay(copy, u) ==
    [files |-> (copy.files \cup u.added) \ u.removed,
     addedTwice |-> copy.addedTwice \/ u.added \cap copy.files # {},
     removedUnadded |-> copy.removedUnadded \/ ~(u.removed \subseteq copy.files)]

TrackApply == \E root \in SelRoots : \E g \in GraphsOf(root) :
    /\ applyRoot(root, g)
    /\ replayed' = Replay(replayed, update')
    /\ rootGraphs' = [r \in DOMAIN rootGraphs \cup {root} |->
                        IF r = root THEN g ELSE rootGraphs[r]]

TrackRemove == \E root \in SelRoots :
    /\ removeRoot(root)
    /\ replayed' = Replay(replayed, update')
    /\ rootGraphs' = [r \in DOMAIN rootGraphs \ {root} |-> rootGraphs[r]]

TrackNext == TrackApply \/ TrackRemove

(***************************************************************************)
(* Strings and paths.  A string is the sequence of its "/"-separated       *)
(* segments; a segment is a name and the extensions that follow it, so     *)
(* "/ws/A.test.ts" is << "", "ws", "A" + <<".test", ".ts">> >>.  The empty *)
(* string is the single empty segment; no string is the empty sequence,    *)
(* which stands for null.                                                  *)
(***************************************************************************)
Seg(n, x) == [n |-> n, x |-> x]
D(n)      == Seg(n, << >>)            \* a segment without extension
F(n, e)   == Seg(n, <<e>>)            \* a segment with one extension

NULLPATH  == << >>
EmptyString == << D("") >>

\* String.prototype.startsWith(".")
startsWithDot(str) ==
    \/ str[1].n \in {".", ".."}
    \/ str[1].n = "" /\ str[1].x # << >>

\* String.prototype.startsWith("/")
startsWithSlash(str) == Len(str) >= 2 /\ str[1] = D("")

\* path.extname of the last segment ("" for none, and for a dot-file such as ".ts")
extname(p) ==
    LET last == p[Len(p)]
    IN IF last.x = << >> \/ (last.n = "" /\ Len(last.x) = 1) \/ last.n \in {".", ".."}
       THEN ""
       ELSE last.x[Len(last.x)]

\* `${basePath}${ext}`
withExt(p, e) == [p EXCEPT ![Len(p)].x = Append(@, e)]

\* path.dirname
dirname(p) == SubSeq(p, 1, Len(p) - 1)

\* path.normalize of an absolute path: "." and empty segments vanish, ".." pops
\* a segment but never the root.
RECURSIVE NormalizeFrom(_, _)
NormalizeFrom(done, rest) ==
    IF rest = << >> THEN done
    ELSE LET s == Head(rest)
         IN IF s = D(".") \/ s = D("")
            THEN NormalizeFrom(done, Tail(rest))
            ELSE IF s = D("..")
            THEN NormalizeFrom(IF Len(done) > 1 THEN SubSeq(done, 1, Len(done) - 1)
                                                ELSE done, Tail(rest))
            ELSE NormalizeFrom(Append(done, s), Tail(rest))

\* path.resolve(dir, p) for an absolute dir
pathResolve(dir, p) ==
    IF startsWithSlash(p) THEN NormalizeFrom(<< D("") >>, Tail(p))
    ELSE NormalizeFrom(<< D("") >>, Tail(dir) \o p)

\* path.join(a, b) for an absolute a
pathJoin(a, b) == NormalizeFrom(<< D("") >>, Tail(a) \o b)

(***************************************************************************)
(* The file system and tsconfig.json a resolver or an analysis runs        *)
(* against:  world = [ws, files, unreadable, tsconfig]                     *)
(*   files      : path -> content (the sequence of its statements)         *)
(*   unreadable : the files whose read fails                               *)
(*   tsconfig   : [kind |-> "missing" | "invalid" | "valid", baseUrl,      *)
(*                 paths |-> [defined, entries]]                           *)
(***************************************************************************)
IsPrefix(a, b) == Len(a) <= Len(b) /\ SubSeq(b, 1, Len(a)) = a

\* vscode.workspace.fs.stat succeeds: a file, or a directory holding one
Exists(w, p) ==
    \/ p \in DOMAIN w.files
    \/ \E f \in DOMAIN w.files : Len(p) < Len(f) /\ IsPrefix(p, f)

(***************************************************************************)
(* Path Resolver                                                           *)
(***************************************************************************)
EXTENSIONS   == << ".ts", ".tsx", ".js", ".jsx", ".mjs", ".cjs" >>
BARREL_FILES == << F("index", ".ts"), F("index", ".tsx"),
                   F("index", ".js"), F("index", ".jsx") >>

isExternalPackage_AliasAware(importPath) ==
    /\ ~startsWithDot(importPath)
    /\ ~startsWithSlash(importPath)
    /\ importPath[1].n # "@"

\* External packages don't start with . or /
isExternalPackage(importPath) ==
    ~startsWithDot(importPath) /\ ~startsWithSlash(importPath)

\* The paths findFile stats for one base, in the order it stats them.
FindCandidates(basePath) ==
    (IF extname(basePath) # "" THEN << basePath >> ELSE << >>)
    \o [i \in 1..Len(EXTENSIONS) |-> withExt(basePath, EXTENSIONS[i])]
    \o [i \in 1..Len(BARREL_FILES) |-> Append(basePath, BARREL_FILES[i])]

\* A step of resolve: the stat of a candidate path, or a place where it throws.
Try(p)     == [p |-> p, throws |-> FALSE]
Throw      == [p |-> NULLPATH, throws |-> TRUE]
TryAll(ps) == [i \in 1..Len(ps) |-> Try(ps[i])]

\* regex.exec(importPath) for a mapping pattern "prefix/*", "*" or "exact"
PatternMatches(pattern, importPath) ==
    IF pattern.star
    THEN Len(importPath) > Len(pattern.prefix) /\ IsPrefix(pattern.prefix, importPath)
    ELSE importPath = pattern.prefix

\* match[1] || ""
MatchedPart(pattern, importPath) ==
    IF pattern.star
    THEN SubSeq(importPath, Len(pattern.prefix) + 1, Len(importPath))
    ELSE << >>

\* mappedPath.replaceAll("*", matchedPart)
Substitute(target, matchedPart) ==
    IF target.star THEN target.prefix \o matchedPart ELSE target.prefix

\* One entry of pathMappings inside resolveTsconfigPath: the pattern's regex is
\* built (and may be invalid), then each mapped path of a matching pattern is
\* substituted, joined to workspaceRoot and baseUrl, and handed to findFile.
RECURSIVE TargetSteps(_, _, _, _)
TargetSteps(ws, base, targets, matched) ==
    IF targets = << >> THEN << >>
    ELSE TryAll(FindCandidates(pathJoin(ws, base \o Substitute(Head(targets), matched))))
         \o TargetSteps(ws, base, Tail(targets), matched)

EntrySteps(ws, base, entry, importPath) ==
    IF entry.pattern.badRegex THEN << Throw >>
    ELSE IF ~PatternMatches(entry.pattern, importPath) THEN << >>
    ELSE IF ~entry.iterable THEN << Throw >>
    ELSE TargetSteps(ws, base, entry.targets, MatchedPart(entry.pattern, importPath))

RECURSIVE MappingSteps(_, _, _, _)
MappingSteps(ws, base, entries, importPath) ==
    IF entries = << >> THEN << >>
    ELSE LET first == EntrySteps(ws, base, Head(entries), importPath)
         IN IF first # << >> /\ first[Len(first)].throws THEN first
            ELSE first \o MappingSteps(ws, base, Tail(entries), importPath)

resolveTsconfigPath(ws, mappings, base, importPath) ==
    IF ~mappings.defined THEN << >>
    ELSE MappingSteps(ws, base, mappings.entries, importPath)

resolveRelativePath(importPath, currentFilePath) ==
    TryAll(FindCandidates(pathResolve(dirname(currentFilePath), importPath)))

resolveBaseUrlPath(ws, base, importPath) ==
    IF base = NULLPATH \/ base = EmptyString THEN << >>
    ELSE TryAll(FindCandidates(pathJoin(ws, base \o importPath)))

ResolveSteps_RelativeFirst(ws, mappings, base, importPath, currentFilePath) ==
    resolveRelativePath(importPath, currentFilePath)
    \o resolveTsconfigPath(ws, mappings, base, importPath)
    \o resolveBaseUrlPath(ws, base, importPath)

\* Everything resolve does after the tsconfig is loaded, in order: the mapped
\* candidates, the relative ones, the baseUrl ones.
ResolveSteps(ws, mappings, base, importPath, currentFilePath) ==
    resolveTsconfigPath(ws, mappings, base, importPath)
    \o resolveRelativePath(importPath, currentFilePath)
    \o resolveBaseUrlPath(ws, base, importPath)

\* The index of the step that ends the call: the first candidate that exists or
\* the first throw; 0 when no step ends it.
RECURSIVE FirstHit(_, _, _)
FirstHit(w, steps, i) ==
    IF i > Len(steps) THEN 0
    ELSE IF steps[i].throws \/ Exists(w, steps[i].p) THEN i
    ELSE FirstHit(w, steps, i + 1)

ResolveLoaded_ThrowFallsThrough(w, mappings, base, importPath, currentFilePath) ==
    LET steps == ResolveSteps(w.ws, mappings, base, importPath, currentFilePath)
        found == { i \in 1..Len(steps) : ~steps[i].throws /\ Exists(w, steps[i].p) }
    IN IF found = {} THEN NULLPATH
       ELSE steps[CHOOSE i \in found : \A j \in found : i <= j].p

\* resolve's result after the tsconfig is loaded; a throw is caught and gives null.
ResolveLoaded(w, mappings, base, importPath, currentFilePath) ==
    LET steps == ResolveSteps(w.ws, mappings, base, importPath, currentFilePath)
        hit   == FirstHit(w, steps, 1)
    IN IF hit = 0 \/ steps[hit].throws THEN NULLPATH ELSE steps[hit].p

\* the stats resolve performs after the tsconfig is loaded
ResolveStats(w, mappings, base, importPath, currentFilePath) ==
    LET steps == ResolveSteps(w.ws, mappings, base, importPath, currentFilePath)
        hit   == FirstHit(w, steps, 1)
        last  == IF hit = 0 THEN Len(steps)
                 ELSE IF steps[hit].throws THEN hit - 1 ELSE hit
    IN [i \in 1..last |-> [op |-> "stat", path |-> steps[i].p]]

\* ---- the resolver's environment ----
WS == << D(""), D("ws") >>
TsconfigPath(w) == Append(w.ws, F("tsconfig", ".json"))

Undefined     == [defined |-> FALSE, entries |-> << >>]
Pattern(prefix, star) == [prefix |-> prefix, star |-> star, badRegex |-> FALSE]
Target(prefix, star)  == [prefix |-> prefix, star |-> star]

TsMissing == [kind |-> "missing", baseUrl |-> NULLPATH, paths |-> Undefined]
TsInvalid == [kind |-> "invalid", baseUrl |-> NULLPATH, paths |-> Undefined]
\* { "compilerOptions": { "paths": { "@/*": ["src/*"] } } }
TsAlias   == [kind |-> "valid", baseUrl |-> NULLPATH,
              paths |-> [defined |-> TRUE,
                         entries |-> << [pattern |-> Pattern(<< D("@") >>, TRUE),
                                         targets |-> << Target(<< D("src") >>, TRUE) >>,
                                         iterable |-> TRUE] >>]]
\* { "compilerOptions": { "paths": { "./B": 5 } } }: the mapped paths of a
\* pattern that matches "./B" cannot be iterated
TsThrowOnB == [kind |-> "valid", baseUrl |-> NULLPATH,
               paths |-> [defined |-> TRUE,
                          entries |-> << [pattern |-> Pattern(<< D("."), D("B") >>, FALSE),
                                          targets |-> << >>,
                                          iterable |-> FALSE] >>]]
\* { "compilerOptions": { "baseUrl": "lib" } }
TsBaseUrl == [kind |-> "valid", baseUrl |-> << D("lib") >>, paths |-> Undefined]
\* { "compilerOptions": { "paths": { "./*": ["lib/*"] } } }
TsDotAlias == [kind |-> "valid", baseUrl |-> NULLPATH,
               paths |-> [defined |-> TRUE,
                          entries |-> << [pattern |-> Pattern(<< D(".") >>, TRUE),
                                          targets |-> << Target(<< D("lib") >>, TRUE) >>,
                                          iterable |-> TRUE] >>]]
\* { "compilerOptions": { "paths": { "[": ["lib/*"] } } }: no regex can be
\* built from the pattern
TsBadRegex == [kind |-> "valid", baseUrl |-> NULLPATH,
               paths |-> [defined |-> TRUE,
                          entries |-> << [pattern |-> [prefix |-> << D("[") >>, star |-> FALSE,
                                                       badRegex |-> TRUE],
                                          targets |-> << Target(<< D("lib") >>, TRUE) >>,
                                          iterable |-> TRUE] >>]]

RsImporter == WS \o << D("src"), F("A", ".ts") >>
RsDisk ==
    { RsImporter,
      WS \o << D("src"), F("B", ".tsx") >>,
      WS \o << D("src"), D("comp"), F("index", ".ts") >>,
      WS \o << D("src"), D("utils"), F("bar", ".ts") >>,
      WS \o << D("src"), F("data", ".json") >>,
      WS \o << D("src"), D("mod"), F("index", ".mjs") >>,
      WS \o << D("lib"), F("C", ".ts") >>,
      << D(""), D("out"), F("S", ".ts") >> }        \* /out/S.ts, not under /ws

RsWorlds ==
    { [ws |-> WS, files |-> [p \in disk |-> << >>], unreadable |-> {}, tsconfig |-> ts] :
        disk \in { RsDisk, RsDisk \ { WS \o << D("src"), F("B", ".tsx") >> },
                   RsDisk \cup { WS \o << D("src"), F("C", ".ts") >> } },
        ts \in { TsMissing, TsInvalid, TsAlias, TsBaseUrl, TsDotAlias, TsThrowOnB,
                 TsBadRegex } }

RsSpecifiers ==
    { << D("react") >>,                             \* "react"
      << D("@company"), D("utils") >>,              \* "@company/utils"
      EmptyString,                                  \* ""
      << D("@"), D("utils"), D("bar") >>,           \* "@/utils/bar"
      << D("."), D("B") >>,                         \* "./B"
      << D("."), D("C") >>,                         \* "./C"
      << D("."), D("comp") >>,                      \* "./comp"
      << D("."), D("mod") >>,                       \* "./mod"
      << D("."), F("B", ".tsx") >>,                 \* "./B.tsx"
      << D("."), F("data", ".json") >>,             \* "./data.json"
      << D(""), D("ws"), D("src"), F("A", ".ts") >>, \* "/ws/src/A.ts"
      << D(".."), D(".."), D("out"), D("S") >>      \* "../../out/S"
    }

Callers == {"c1", "c2"}

IdleCall == [pc |-> "idle", spec |-> NULLPATH, file |-> NULLPATH,
             result |-> NULLPATH, io |-> << >>]

\* resolve(importPath, currentFilePath) up to its first suspension: the external
\* check, then ensureTsconfigLoaded's cache test and, on a miss, its stat.
resolve(c, importPath, currentFilePath) ==
    /\ calls[c].pc \in {"idle", "done"}
    /\ LET call == [pc |-> "find", spec |-> importPath, file |-> currentFilePath,
                    result |-> NULLPATH, io |-> << >>]
       IN calls' = [calls EXCEPT ![c] =
            IF isExternalPackage(importPath)
            THEN [call EXCEPT !.pc = "done"]
            ELSE IF tsconfigCache # "null"
            THEN call
            ELSE [call EXCEPT !.pc = "statted",
                              !.io = << [op |-> "stat", path |-> TsconfigPath(world)] >>]]
    /\ UNCHANGED <<tsconfigCache, pathMappings, baseUrl, selVars, anVars, svcVars, cacheVars, exVars, uiVars>>

ensureAfterStat_MissingNotCached(c) ==
    /\ calls[c].pc = "statted"
    /\ IF world.tsconfig.kind = "missing"
       THEN /\ tsconfigCache' = tsconfigCache
            /\ calls' = [calls EXCEPT ![c].pc = "find"]
       ELSE /\ tsconfigCache' = tsconfigCache
            /\ calls' = [calls EXCEPT ![c].pc = "reading",
                           ![c].io = Append(@, [op |-> "readFile",
                                                path |-> TsconfigPath(world)])]
    /\ UNCHANGED <<pathMappings, baseUrl, selVars, anVars, svcVars, cacheVars, exVars, uiVars>>

\* ensureTsconfigLoaded resumes after the stat of tsconfig.json
ensureAfterStat(c) ==
    /\ calls[c].pc = "statted"
    /\ IF world.tsconfig.kind = "missing"
       THEN /\ tsconfigCache' = "loaded"
            /\ calls' = [calls EXCEPT ![c].pc = "find"]
       ELSE /\ tsconfigCache' = tsconfigCache
            /\ calls' = [calls EXCEPT ![c].pc = "reading",
                           ![c].io = Append(@, [op |-> "readFile",
                                                path |-> TsconfigPath(world)])]
    /\ UNCHANGED <<pathMappings, baseUrl, selVars, anVars, svcVars, cacheVars, exVars, uiVars>>

ensureAfterRead_MarksLoadedFirst(c) ==
    /\ calls[c].pc = "reading"
    /\ IF world.tsconfig.kind = "invalid" \/ tsconfigCache = "null"
       THEN UNCHANGED <<pathMappings, baseUrl>>
       ELSE /\ baseUrl' = world.tsconfig.baseUrl
            /\ pathMappings' = IF world.tsconfig.paths.defined
                               THEN world.tsconfig.paths ELSE pathMappings
    /\ tsconfigCache' = "loaded"
    /\ calls' = [calls EXCEPT ![c].pc = "find"]
    /\ UNCHANGED <<selVars, anVars, svcVars, cacheVars, exVars, uiVars>>

\* ensureTsconfigLoaded resumes after readFile: parse, extract, mark loaded
ensureAfterRead(c) ==
    /\ calls[c].pc = "reading"
    /\ IF world.tsconfig.kind = "invalid"
       THEN UNCHANGED <<pathMappings, baseUrl>>
       ELSE /\ baseUrl' = world.tsconfig.baseUrl
            /\ pathMappings' = IF world.tsconfig.paths.defined
                               THEN world.tsconfig.paths ELSE pathMappings
    /\ tsconfigCache' = "loaded"
    /\ calls' = [calls EXCEPT ![c].pc = "find"]
    /\ UNCHANGED <<selVars, anVars, svcVars, cacheVars, exVars, uiVars>>

\* the resolution strategies, with the instance's mappings and baseUrl
resolveStrategies(c) ==
    /\ calls[c].pc = "find"
    /\ calls' = [calls EXCEPT
         ![c].pc = "done",
         ![c].result = ResolveLoaded(world, pathMappings, baseUrl,
                                     calls[c].spec, calls[c].file),
         ![c].io = @ \o ResolveStats(world, pathMappings, baseUrl,
                                     calls[c].spec, calls[c].file)]
    /\ UNCHANGED <<tsconfigCache, pathMappings, baseUrl, selVars, anVars, svcVars, cacheVars, exVars, uiVars>>

clearCache ==
    /\ tsconfigCache' = "null"
    /\ pathMappings' = Undefined
    /\ baseUrl' = NULLPATH
    /\ UNCHANGED <<calls, selVars, anVars, svcVars, cacheVars, exVars, uiVars>>

RsResolve == \E c \in Callers : \E importPath \in RsSpecifiers :
                resolve(c, importPath, RsImporter) /\ UNCHANGED invalidation
RsAfterStat == \E c \in Callers : ensureAfterStat(c) /\ UNCHANGED invalidation
RsAfterRead == \E c \in Callers : ensureAfterRead(c) /\ UNCHANGED invalidation
RsStrategies == \E c \in Callers : resolveStrategies(c) /\ UNCHANGED invalidation
RsClear == clearCache /\ UNCHANGED invalidation

RsNext == RsResolve \/ RsAfterStat \/ RsAfterRead \/ RsStrategies \/ RsClear

\* ---- the same calls, with the loads each clearCache() found in flight kept ----
NoInvalidation == [stale |-> {}, pending |-> FALSE]

Loading(c) == calls[c].pc \in {"statted", "reading"}

\* the call's load of tsconfig.json has finished: the call goes on to the strategies
Loaded(c) == Loading(c) /\ calls'[c].pc = "find"

\* a load finishes: it is no longer in flight, and a load begun after the
\* last clearCache() settles that invalidation
AfterLoad(c) ==
    IF Loaded(c)
    THEN invalidation' = [stale |-> invalidation.stale \ {c},
                          pending |-> invalidation.pending /\ c \in invalidation.stale]
    ELSE UNCHANGED invalidation

TrackResolve == \E c \in Callers : \E importPath \in RsSpecifiers :
    resolve(c, importPath, RsImporter) /\ UNCHANGED invalidation
TrackAfterStat == \E c \in Callers : ensureAfterStat(c) /\ AfterLoad(c)
TrackAfterRead == \E c \in Callers : ensureAfterRead(c) /\ AfterLoad(c)
TrackStrategies == \E c \in Callers : resolveStrategies(c) /\ UNCHANGED invalidation
TrackClear ==
    /\ clearCache
    /\ invalidation' = [stale |-> { c \in Callers : Loading(c) }, pending |-> TRUE]

RsTrackedNext == TrackResolve \/ TrackAfterStat \/ TrackAfterRead \/ TrackStrategies
                    \/ TrackClear

(***************************************************************************)
(* Import Extractor.  A file's content is the sequence of its lines, each  *)
(* one statement [kind, source, names, commented]: an import of one of the *)
(* three forms, possibly inside a comment.                                 *)
(***************************************************************************)
Stmt(kind, source) ==
    [kind |-> kind, source |-> source, names |-> << >>, commented |-> FALSE]
Commented(kind, source) ==
    [kind |-> kind, source |-> source, names |-> << >>, commented |-> TRUE]

supportedExtensions == {".ts", ".tsx", ".js", ".jsx", ".mjs", ".cjs"}

\* supportedExtensions.some((ext) => filePath.endsWith(ext))
isSupportedFile(filePath) ==
    LET last == filePath[Len(filePath)]
    IN last.x # << >> /\ last.x[Len(last.x)] \in supportedExtensions

\* one of parseES6Imports / parseCommonJSImports / parseDynamicImports over the
\* content: the statements of that form, in source order, each
\* with its 1-based line.  When comments are kept, a commented statement matches too.
RECURSIVE MatchesOf(_, _, _, _)
MatchesOf(content, kind, i, keepComments) ==
    IF i > Len(content) THEN << >>
    ELSE (IF content[i].kind = kind /\ (keepComments \/ ~content[i].commented)
          THEN << [source |-> content[i].source, type |-> kind,
                   specifiers |-> IF kind = "es6" THEN content[i].names ELSE << >>,
                   line |-> i] >>
          ELSE << >>)
         \o MatchesOf(content, kind, i + 1, keepComments)

parseImportsFromContent_KeepComments(content) ==
    MatchesOf(content, "es6", 1, TRUE)
    \o MatchesOf(content, "commonjs", 1, TRUE)
    \o MatchesOf(content, "dynamic", 1, TRUE)

\* comments removed, then the ES6 imports, then the requires, then the dynamic imports
parseImportsFromContent(content) ==
    MatchesOf(content, "es6", 1, FALSE)
    \o MatchesOf(content, "commonjs", 1, FALSE)
    \o MatchesOf(content, "dynamic", 1, FALSE)

parseImports_Expand(w, filePath) ==
    IF ~isSupportedFile(filePath) THEN << >>
    ELSE IF filePath \notin DOMAIN w.files THEN << >>
    ELSE parseImportsFromContent(w.files[filePath])

\* parseImports: [] for an unsupported type and for any failure of the read
parseImports(w, filePath) ==
    IF ~isSupportedFile(filePath) THEN << >>
    ELSE IF filePath \notin DOMAIN w.files \/ filePath \in w.unreadable THEN << >>
    ELSE parseImportsFromContent(w.files[filePath])

(***************************************************************************)
(* Exclusion Filter                                                        *)
(***************************************************************************)
\* path lies inside an externally-managed dependency directory
shouldExclude(path) == \E i \in 1..Len(path) : path[i] = D("node_modules")

\* glob patterns "*<suffix>": the suffix is a sequence of extensions
LogFiles  == << ".log" >>           \* "*.log"
TestFiles == << ".test", ".ts" >>   \* "*.test.ts"

\* path matches the pattern "*<suffix>": its file name ends with the suffix
GlobMatches(suffix, path) ==
    LET x == path[Len(path)].x
    IN /\ Len(x) >= Len(suffix)
       /\ SubSeq(x, Len(x) - Len(suffix) + 1, Len(x)) = suffix

MatchesAny(patterns, path) == \E s \in patterns : GlobMatches(s, path)

NotExcluded == [excluded |-> FALSE, reason |-> "none"]
Excluded(reason) == [excluded |-> TRUE, reason |-> reason]

\* the ignore rules in force: none when the ignore file is missing
IgnoreRules(ignoreFile) == IF ignoreFile.exists THEN ignoreFile.rules ELSE {}

shouldExcludeWith_UserFirst(config, rules, path) ==
    IF shouldExclude(path) THEN Excluded("externally-managed")
    ELSE IF MatchesAny(config.exclusionPatterns, path) THEN Excluded("user-pattern")
    ELSE IF config.respectIgnoreFile /\ MatchesAny(rules, path) THEN Excluded("ignore-rule")
    ELSE NotExcluded

\* shouldExclude(path, config) with the session's ignore rules: the checks in
\* order, the first that matches gives the reason
shouldExcludeWith(config, rules, path) ==
    IF shouldExclude(path) THEN Excluded("externally-managed")
    ELSE IF config.respectIgnoreFile /\ MatchesAny(rules, path) THEN Excluded("ignore-rule")
    ELSE IF MatchesAny(config.exclusionPatterns, path) THEN Excluded("user-pattern")
    ELSE NotExcluded

\* ---- the sessions the filter is exercised in ----
ExConfigs ==
    [respectIgnoreFile : BOOLEAN,
     exclusionPatterns : { {}, { TestFiles }, { LogFiles }, { TestFiles, LogFiles } }]

ExIgnoreFiles ==
    { [exists |-> FALSE, rules |-> {}] }
       \cup { [exists |-> TRUE, rules |-> r] : r \in { {}, { LogFiles }, { TestFiles } } }

ExPaths ==
    { WS \o << D("node_modules"), D("react"), F("index", ".js") >>,
      WS \o << D("packages"), D("foo"), D("node_modules"), D("bar"), F("debug", ".log") >>,
      WS \o << F("app", ".log") >>,
      WS \o << D("src"), F("index", ".ts") >>,
      WS \o << D("src"), Seg("foo", << ".test", ".ts" >>) >> }

NoSession == [open |-> FALSE, config |-> [respectIgnoreFile |-> FALSE, exclusionPatterns |-> {}],
              ignoreFile |-> [exists |-> FALSE, rules |-> {}],
              loaded |-> FALSE, rules |-> {}, loads |-> 0,
              path |-> NULLPATH, result |-> NotExcluded, error |-> FALSE]

\* an analysis session starts with its configuration; nothing is loaded yet
newSession(config, ignoreFile) ==
    /\ exclusion' = [NoSession EXCEPT !.open = TRUE, !.config = config,
                                      !.ignoreFile = ignoreFile]
    /\ UNCHANGED <<selVars, anVars, rsVars, svcVars, cacheVars, uiVars>>

\* shouldExclude(path, config): the ignore file is loaded on the first call that
\* needs it and kept for the session
checkPath(path) ==
    /\ exclusion.open
    /\ LET load  == exclusion.config.respectIgnoreFile /\ ~exclusion.loaded
           rules == IF load THEN IgnoreRules(exclusion.ignoreFile) ELSE exclusion.rules
       IN exclusion' = [exclusion EXCEPT
             !.loaded = @ \/ load,
             !.rules  = rules,
             !.loads  = IF load THEN 1 ELSE @,
             !.path   = path,
             !.result = shouldExcludeWith(exclusion.config, rules, path)]
    /\ UNCHANGED <<selVars, anVars, rsVars, svcVars, cacheVars, uiVars>>

ExNewSession == \E config \in ExConfigs : \E ignoreFile \in ExIgnoreFiles :
                   newSession(config, ignoreFile)
ExCheck == \E path \in ExPaths : checkPath(path)

ExNext == ExNewSession \/ ExCheck

(***************************************************************************)
(* File Explorer: subtree selection over the tree of the component's tests *)
(*   workspace(ws) { src(src) { a.ts(a), b.ts(b) }, README.md(r) }         *)
(***************************************************************************)
TreeUris == {"ws", "src", "a", "b", "r"}

\* item.subItems, in order
subItems(uri) ==
    IF uri = "ws" THEN << "src", "r" >>
    ELSE IF uri = "src" THEN << "a", "b" >>
    ELSE << >>

\* getAllDescendantPaths(item): the item's own value, then those of its sub-items
RECURSIVE getAllDescendantPaths(_)
getAllDescendantPaths_ChildrenOnly(item) ==
    LET subs == subItems(item)
    IN  << item >> \o (IF subs = << >> THEN << >>
                       ELSE [i \in 1..Len(subs) |-> subs[i]])

getAllDescendantPaths(item) ==
    LET subs == subItems(item)
        RECURSIVE gather(_)
        gather(i) == IF i > Len(subs) THEN << >>
                     ELSE getAllDescendantPaths(subs[i]) \o gather(i + 1)
    IN  << item >> \o gather(1)

MaxTimers == 2
ClickUris == {"ws", "src", "a", "zz"}     \* "zz" is not in the tree index

\* toggleFile(uri)
toggleFile(uri) ==
    /\ selectedUris' = IF uri \in selectedUrisRef THEN selectedUrisRef \ {uri}
                       ELSE selectedUrisRef \cup {uri}
    /\ UNCHANGED <<selectedUrisRef, timers, selVars, anVars, rsVars, svcVars, cacheVars, exVars, xmlVars, tokVars>>

\* selectAllInSubtree(uri): nothing for a uri the index does not hold, else
\* the traversal is deferred to a timer task
selectAllInSubtree(uri) ==
    /\ uri \in TreeUris
    /\ Len(timers) < MaxTimers
    /\ timers' = Append(timers, [op |-> "select", item |-> uri])
    /\ UNCHANGED <<selectedUris, selectedUrisRef, selVars, anVars, rsVars, svcVars, cacheVars, exVars, xmlVars, tokVars>>

\* deselectAllInSubtree(uri), likewise
deselectAllInSubtree(uri) ==
    /\ uri \in TreeUris
    /\ Len(timers) < MaxTimers
    /\ timers' = Append(timers, [op |-> "deselect", item |-> uri])
    /\ UNCHANGED <<selectedUris, selectedUrisRef, selVars, anVars, rsVars, svcVars, cacheVars, exVars, xmlVars, tokVars>>

\* the timer task: next = new Set(selectedUrisRef.current), each descendant
\* added or deleted, onSelect(next)
runTimer ==
    /\ timers # << >>
    /\ LET t == Head(timers)
           paths == Range(getAllDescendantPaths(t.item))
       IN selectedUris' = IF t.op = "select" THEN selectedUrisRef \cup paths
                          ELSE selectedUrisRef \ paths
    /\ timers' = Tail(timers)
    /\ UNCHANGED <<selectedUrisRef, selVars, anVars, rsVars, svcVars, cacheVars, exVars, xmlVars, tokVars>>

\* a render of the component: selectedUrisRef.current = selectedUris
render ==
    /\ selectedUrisRef # selectedUris
    /\ selectedUrisRef' = selectedUris
    /\ UNCHANGED <<selectedUris, timers, selVars, anVars, rsVars, svcVars, cacheVars, exVars, xmlVars, tokVars>>

FeToggle   == \E uri \in {"a", "r"} : toggleFile(uri)
FeSelect   == \E uri \in ClickUris : selectAllInSubtree(uri)
FeDeselect == \E uri \in ClickUris : deselectAllInSubtree(uri)

FeNext == FeToggle \/ FeSelect \/ FeDeselect \/ runTimer \/ render

(***************************************************************************)
(* resolveXmlPathToUri.  specPath is [scheme, prefix, path]: "file://" or  *)
(* no scheme, the text before a first ":" ("" for none), and the path's    *)
(* segments.  vscode.workspace.workspaceFolders is [defined, list], each  *)
(* folder [name, uri].                                                     *)
(***************************************************************************)
SpecPath(scheme, prefix, path) == [scheme |-> scheme, prefix |-> prefix, path |-> path]
Folder(name) == [name |-> name, uri |-> << D(""), D("w"), D(name) >>]

Uri(p)    == [throws |-> FALSE, uri |-> p]
XmlThrow  == [throws |-> TRUE, uri |-> NULLPATH]

\* the segments of the whole text: a prefix and its ":" are part of the first segment
TextOf(specPath) ==
    IF specPath.prefix = "" THEN specPath.path
    ELSE << Seg(specPath.prefix, << ":", Head(specPath.path).n >> \o Head(specPath.path).x) >>
         \o Tail(specPath.path)

\* normalizeRelative: one leading "./" is trimmed
normalizeRelative(p) ==
    IF Len(p) > 1 /\ Head(p) = D(".") THEN Tail(p) ELSE p

\* vscode.Uri.joinPath(folder.uri, rel): a posix join, which normalizes
joinPath(uri, rel) == pathJoin(uri, rel)

\* ensureInsideWorkspace(uri) returns: no check without workspaceFolders,
\* else fsPath, taken as it is written, is a folder's fsPath or starts with it and a separator
ensureInsideWorkspace(folders, uri) ==
    \/ ~folders.defined
    \/ \E i \in 1..Len(folders.list) : IsPrefix(folders.list[i].uri, uri)

CheckedUri(folders, uri) ==
    IF ensureInsideWorkspace(folders, uri) THEN Uri(uri) ELSE XmlThrow

\* folders.find((f) => f.name === name): its index, 0 for none
find(list, name) ==
    IF \E i \in 1..Len(list) : list[i].name = name
    THEN CHOOSE i \in 1..Len(list) :
            list[i].name = name /\ \A j \in 1..(i - 1) : list[j].name # name
    ELSE 0

\* root is "" when the argument is omitted
resolveXmlPathToUri(folders, specPath, root) ==
    IF specPath.scheme = "file"
    THEN CheckedUri(folders, specPath.path)                      \* Uri.parse
    ELSE IF specPath.prefix = "" /\ startsWithSlash(specPath.path)
    THEN CheckedUri(folders, specPath.path)                      \* Uri.file
    ELSE IF ~folders.defined \/ folders.list = << >>
    THEN XmlThrow
    ELSE LET list == folders.list
             verbatim(i) ==
                 CheckedUri(folders, joinPath(list[i].uri, normalizeRelative(TextOf(specPath))))
         IN IF root # ""
            THEN (IF find(list, root) = 0 THEN XmlThrow ELSE verbatim(find(list, root)))
            ELSE IF Len(list) = 1
            THEN verbatim(1)
            ELSE IF specPath.prefix # "" /\ find(list, specPath.prefix) # 0
            THEN CheckedUri(folders, joinPath(list[find(list, specPath.prefix)].uri,
                                           normalizeRelative(specPath.path)))
            \* fs.stat returns a promise and does not throw: every folder is a candidate
            ELSE IF Len(list) = 1 THEN verbatim(1) ELSE XmlThrow

XmlWorkspaces ==
    { [defined |-> FALSE, list |-> << >>],
      [defined |-> TRUE, list |-> << >>],
      [defined |-> TRUE, list |-> << Folder("app") >>],
      [defined |-> TRUE, list |-> << Folder("app"), Folder("lib") >>] }

XmlRoots == {"", "app", "zz"}

AppX == << D(""), D("w"), D("app"), D("src"), F("x", ".ts") >>     \* /w/app/src/x.ts
EtcX == << D(""), D("etc"), F("x", ".ts") >>                        \* /etc/x.ts
XmlSpecPaths ==
    { SpecPath("file", "", AppX),                                   \* file:///w/app/src/x.ts
      SpecPath("file", "", EtcX),                                   \* file:///etc/x.ts
      SpecPath("", "", AppX),
      SpecPath("", "", EtcX),
      SpecPath("", "", << D(""), D("w"), D("app"), D(".."), D(".."), D("etc"), F("x", ".ts") >>),
      SpecPath("", "", << D(""), D("w"), D("apple"), F("x", ".ts") >>),
      SpecPath("", "", << D("src"), F("x", ".ts") >>),              \* src/x.ts
      SpecPath("", "", << D("."), D("src"), F("x", ".ts") >>),      \* ./src/x.ts
      SpecPath("", "", << D(".."), D("lib"), F("x", ".ts") >>),     \* ../lib/x.ts
      SpecPath("", "", << D(".."), D(".."), D("etc"), F("x", ".ts") >>),
      SpecPath("", "app", << D("src"), F("x", ".ts") >>),           \* app:src/x.ts
      SpecPath("", "app", << D(".."), D(".."), D("etc"), F("x", ".ts") >>),
      SpecPath("", "zz", << D("src"), F("x", ".ts") >>) }           \* zz:src/x.ts

NoXmlCall == [folders |-> [defined |-> FALSE, list |-> << >>],
              specPath |-> SpecPath("", "", NULLPATH), root |-> "",
              done |-> FALSE, result |-> XmlThrow]

xmlCall(folders, specPath, root) ==
    /\ xml' = [folders |-> folders, specPath |-> specPath, root |-> root, done |-> TRUE,
               result |-> resolveXmlPathToUri(folders, specPath, root)]
    /\ UNCHANGED <<selVars, anVars, rsVars, svcVars, cacheVars, exVars, feVars, tokVars>>

XmlNext == \E folders \in XmlWorkspaces, specPath \in XmlSpecPaths, root \in XmlRoots :
               xmlCall(folders, specPath, root)

(***************************************************************************)
(* countTokens in the webview.  A request is one call of countTokens; its  *)
(* requestId is taken as unique.  The extension answers a posted request   *)
(* at most once, at any time, with any count.                              *)
(***************************************************************************)
TokenRequestIds == {"t1", "t2"}
TextLengths == {0, 1, 5}
TokenCounts == {0, 3}          \* message.tokenCount; 0 also stands for a missing count

NoTokenRequest == [pc |-> "idle", length |-> 0, listener |-> FALSE, timeoutId |-> FALSE,
                   aborted |-> FALSE, resolved |-> << >>]

\* Math.ceil(text.length / 4)
Fallback(length) == (length + 3) \div 4

\* countTokens(text): 0 at once for an empty text, else the request is
\* registered, its listeners added, the message posted and the timer set
countTokens(r, length) ==
    /\ tokenRequests[r].pc = "idle"
    /\ IF length = 0
       THEN /\ tokenRequests' = [tokenRequests EXCEPT ![r].pc = "settled",
                                                      ![r].resolved = << 0 >>]
            /\ UNCHANGED pendingTokenRequests
       ELSE /\ tokenRequests' = [tokenRequests EXCEPT ![r] =
                   [pc |-> "pending", length |-> length, listener |-> TRUE,
                    timeoutId |-> TRUE, aborted |-> FALSE, resolved |-> << >>]]
            /\ pendingTokenRequests' = pendingTokenRequests \cup {r}
    /\ UNCHANGED <<tokenMessages, selVars, anVars, rsVars, svcVars, cacheVars, exVars, feVars, xmlVars>>

\* the extension posts tokenCountResponse for a request it was sent
postResponse(r, tokenCount) ==
    /\ tokenRequests[r].pc \in {"pending", "settled"} /\ tokenRequests[r].length > 0
    /\ r \notin tokenMessages.answered
    /\ tokenMessages' = [answered |-> tokenMessages.answered \cup {r},
                         posted |-> tokenMessages.posted
                                       \cup {[requestId |-> r, tokenCount |-> tokenCount]}]
    /\ UNCHANGED <<pendingTokenRequests, tokenRequests, selVars, anVars, rsVars, svcVars, cacheVars, exVars, feVars, xmlVars>>

\* the request's state after one of its three handlers settles it with value
Settle(req, value) ==
    [req EXCEPT !.pc = "settled", !.listener = FALSE, !.timeoutId = FALSE,
                !.resolved = Append(@, value)]

\* a tokenCountResponse is delivered: the handleMessage of the request it
\* names, if still registered and not aborted, settles with
\* message.tokenCount || Math.ceil(text.length / 4)
handleMessage(message) ==
    /\ message \in tokenMessages.posted
    /\ tokenMessages' = [tokenMessages EXCEPT !.posted = @ \ {message}]
    /\ LET r == message.requestId
           req == tokenRequests[r]
       IN IF req.listener /\ ~req.aborted
          THEN /\ tokenRequests' = [tokenRequests EXCEPT ![r] =
                      Settle(req, IF message.tokenCount # 0 THEN message.tokenCount
                                  ELSE Fallback(req.length))]
               /\ pendingTokenRequests' = pendingTokenRequests \ {r}
          ELSE UNCHANGED <<tokenRequests, pendingTokenRequests>>
    /\ UNCHANGED <<selVars, anVars, rsVars, svcVars, cacheVars, exVars, feVars, xmlVars>>

\* the 5-second timer fires
timeoutFires_KeepsListener(r) ==
    /\ tokenRequests[r].timeoutId
    /\ IF ~tokenRequests[r].aborted
       THEN /\ tokenRequests' = [tokenRequests EXCEPT ![r] =
                   [Settle(@, Fallback(@.length)) EXCEPT !.listener = TRUE]]
            /\ pendingTokenRequests' = pendingTokenRequests \ {r}
       ELSE /\ tokenRequests' = [tokenRequests EXCEPT ![r].timeoutId = FALSE]
            /\ UNCHANGED pendingTokenRequests
    /\ UNCHANGED <<tokenMessages, selVars, anVars, rsVars, svcVars, cacheVars, exVars, feVars, xmlVars>>

timeoutFires(r) ==
    /\ tokenRequests[r].timeoutId
    /\ IF ~tokenRequests[r].aborted
       THEN /\ tokenRequests' = [tokenRequests EXCEPT ![r] = Settle(@, Fallback(@.length))]
            /\ pendingTokenRequests' = pendingTokenRequests \ {r}
       ELSE /\ tokenRequests' = [tokenRequests EXCEPT ![r].timeoutId = FALSE]
            /\ UNCHANGED pendingTokenRequests
    /\ UNCHANGED <<tokenMessages, selVars, anVars, rsVars, svcVars, cacheVars, exVars, feVars, xmlVars>>

\* cancelPendingTokenRequests(): every controller in the Map is aborted, whose
\* abort listener settles the request with the fallback, and the Map is emptied
cancelPendingTokenRequests ==
    /\ pendingTokenRequests # {}
    /\ tokenRequests' = [r \in TokenRequestIds |->
          IF r \in pendingTokenRequests
          THEN [Settle(tokenRequests[r], Fallback(tokenRequests[r].length))
                   EXCEPT !.aborted = TRUE]
          ELSE tokenRequests[r]]
    /\ pendingTokenRequests' = {}
    /\ UNCHANGED <<tokenMessages, selVars, anVars, rsVars, svcVars, cacheVars, exVars, feVars, xmlVars>>

TokCount    == \E r \in TokenRequestIds : \E length \in TextLengths : countTokens(r, length)
TokRespond  == \E r \in TokenRequestIds : \E tokenCount \in TokenCounts :
                   postResponse(r, tokenCount)
TokDeliver  == \E message \in tokenMessages.posted : handleMessage(message)
TokTimeout  == \E r \in TokenRequestIds : timeoutFires(r)

TokNext == TokCount \/ TokRespond \/ TokDeliver \/ TokTimeout \/ cancelPendingTokenRequests

(***************************************************************************)
(* Dependency Analyzer                                                     *)
(***************************************************************************)
\* the fields ensureTsconfigLoaded leaves in the resolver the analyzer owns
LoadedConfig(ts) ==
    IF ts.kind = "valid"
    THEN [pathMappings |-> ts.paths, baseUrl |-> ts.baseUrl]
    ELSE [pathMappings |-> Undefined, baseUrl |-> NULLPATH]

\* pathResolver.resolve(imp.source, path) as analyze observes it
resolveImport(w, importPath, currentFilePath) ==
    IF isExternalPackage(importPath) THEN NULLPATH
    ELSE LET cfg == LoadedConfig(w.tsconfig)
         IN ResolveLoaded(w, cfg.pathMappings, cfg.baseUrl, importPath, currentFilePath)

\* findTestFiles: the default patterns, joined to the source's directory
TestPatterns(base) ==
    << << Seg(base.n, base.x \o << ".test", ".ts" >>) >>,
       << Seg(base.n, base.x \o << ".test", ".tsx" >>) >>,
       << Seg(base.n, base.x \o << ".spec", ".ts" >>) >>,
       << Seg(base.n, base.x \o << ".spec", ".tsx" >>) >>,
       << D("__tests__"), Seg(base.n, base.x \o << ".test", ".ts" >>) >>,
       << D("__tests__"), Seg(base.n, base.x \o << ".tsx" >>) >> >>

RECURSIVE ExistingOf(_, _)
ExistingOf(w, paths) ==
    IF paths = << >> THEN << >>
    ELSE (IF Exists(w, Head(paths)) THEN << Head(paths) >> ELSE << >>)
         \o ExistingOf(w, Tail(paths))

findTestFiles(w, sourcePath) ==
    LET last == sourcePath[Len(sourcePath)]
        base == IF extname(sourcePath) = "" THEN last
                ELSE Seg(last.n, SubSeq(last.x, 1, Len(last.x) - 1))
        pats == TestPatterns(base)
    IN ExistingOf(w, [i \in 1..Len(pats) |-> pathJoin(dirname(sourcePath), pats[i])])

RECURSIVE ResolvedPaths_AbortOnFailure(_, _, _)
ResolvedPaths_AbortOnFailure(w, path, imports) ==
    IF imports = << >> THEN << >>
    ELSE LET resolved == resolveImport(w, Head(imports).source, path)
         IN IF resolved = NULLPATH THEN << >>
            ELSE (IF ~shouldExclude(resolved) THEN << resolved >> ELSE << >>)
                 \o ResolvedPaths_AbortOnFailure(w, path, Tail(imports))

RECURSIVE ResolvedPaths_NoFilter(_, _, _)
ResolvedPaths_NoFilter(w, path, imports) ==
    IF imports = << >> THEN << >>
    ELSE LET resolved == resolveImport(w, Head(imports).source, path)
         IN (IF resolved # NULLPATH THEN << resolved >> ELSE << >>)
            \o ResolvedPaths_NoFilter(w, path, Tail(imports))

\* the body of analyze's inner loop over one file's imports: the resolved,
\* non-excluded targets in import order
RECURSIVE ResolvedPaths(_, _, _)
ResolvedPaths(w, path, imports) ==
    IF imports = << >> THEN << >>
    ELSE LET resolved == resolveImport(w, Head(imports).source, path)
         IN (IF resolved # NULLPATH /\ ~shouldExclude(resolved)
             THEN << resolved >> ELSE << >>)
            \o ResolvedPaths(w, path, Tail(imports))

EmptyGraph(rootPath) ==
    [nodes |-> << >>, edges |-> << >>, reverseEdges |-> << >>,
     roots |-> {rootPath}, cycles |-> {}]

AddEdges_OnlyUnvisited(edges, path, targets) ==
    LET fresh == targets \ Range(visited)
    IN IF fresh = {} THEN edges
       ELSE [p \in DOMAIN edges \cup {path} |->
               IF p = path
               THEN (IF p \in DOMAIN edges THEN edges[p] ELSE {}) \cup fresh
               ELSE edges[p]]

\* graph.edges.get(path).add(resolved) for every resolved import of path
AddEdges(edges, path, targets) ==
    IF targets = {} THEN edges
    ELSE [p \in DOMAIN edges \cup {path} |->
            IF p = path
            THEN (IF p \in DOMAIN edges THEN edges[p] ELSE {}) \cup targets
            ELSE edges[p]]

\* graph.nodes.set(path, node)
SetNode(nodes, path, node) ==
    [p \in DOMAIN nodes \cup {path} |-> IF p = path THEN node ELSE nodes[p]]

\* ---- cycle detection over the discovered edges ----
HasEdge(edges, u, v) == u \in DOMAIN edges /\ v \in edges[u]

\* the simple paths of k nodes over the graph's nodes
RECURSIVE SimplePaths(_, _, _)
SimplePaths(ns, edges, k) ==
    IF k = 1 THEN { << n >> : n \in ns }
    ELSE UNION { { Append(q, n) :
                     n \in { m \in ns : m \notin Range(q)
                                        /\ HasEdge(edges, q[Len(q)], m) } } :
                 q \in SimplePaths(ns, edges, k - 1) }

PosIn(seq, x) == CHOOSE i \in 1..Len(seq) : seq[i] = x

detectCycles_ThroughRootOnly(g, order) ==
    LET ns == DOMAIN g.nodes
        closing(q) == HasEdge(g.edges, q[Len(q)], q[1]) /\ q[1] = order[1]
    IN UNION { { Append(q, q[1]) : q \in { r \in SimplePaths(ns, g.edges, k) : closing(r) } } :
               k \in 1..Cardinality(ns) }

\* detectCycles: every simple cycle among the discovered edges, as the closed
\* path [n1, ..., nk, n1] that starts at the cycle's first-visited node
detectCycles(g, order) ==
    LET ns == DOMAIN g.nodes
        closing(q) ==
            /\ HasEdge(g.edges, q[Len(q)], q[1])
            /\ \A i \in 2..Len(q) : PosIn(order, q[1]) < PosIn(order, q[i])
    IN UNION { { Append(q, q[1]) : q \in { r \in SimplePaths(ns, g.edges, k) : closing(r) } } :
               k \in 1..Cardinality(ns) }

\* ---- the file sets analyses run against ----
P(name) == WS \o << F(name, ".ts") >>            \* "/ws/<name>.ts"
Rel(name) == << D("."), D(name) >>               \* "./<name>"
PkgIndex == WS \o << D("node_modules"), D("pkg"), F("index", ".js") >>
TestOf(name) == WS \o << Seg(name, << ".test", ".ts" >>) >>
DataJson == WS \o << F("data", ".json") >>

\* the import form each file is imported with
KindFor(name) ==
    IF name = "A" THEN "dynamic" ELSE IF name = "C" THEN "commonjs" ELSE "es6"

NameOrder == << "A", "B", "C", "D", "E" >>

\* the statements importing, in NameOrder, the files `from` imports under `rel`
RECURSIVE ImportLines(_, _, _)
ImportLines(rel, from, i) ==
    IF i > Len(NameOrder) THEN << >>
    ELSE (IF << from, NameOrder[i] >> \in rel
          THEN << Stmt(KindFor(NameOrder[i]), Rel(NameOrder[i])) >> ELSE << >>)
         \o ImportLines(rel, from, i + 1)

\* imports that must not become nodes, ahead of the file's own imports
ExtraLines ==
    << Stmt("es6", << D("react") >>),
       Stmt("commonjs", << D("@company"), D("utils") >>),
       Stmt("es6", << D("."), D("node_modules"), D("pkg") >>),
       Commented("es6", Rel("G")),
       Stmt("es6", << D("."), F("data", ".json") >>),
       Stmt("dynamic", Rel("missing")) >>

\* The world with files `names`, import relation `rel`, unreadable files `bad`
\* and the extra imports (and a test file) given to file `extra` ("" for none).
MkWorld(names, rel, bad, extra) ==
    LET src == { P(n) : n \in names }
        all == src \cup { PkgIndex, P("G"), DataJson }
                   \cup (IF extra = "" THEN {} ELSE { TestOf(extra) })
        nameOf(p) == p[Len(p)].n
    IN [ws |-> WS,
        files |-> [p \in all |->
            IF p \in src
            THEN (IF nameOf(p) = extra THEN ExtraLines ELSE << >>)
                 \o ImportLines(rel, nameOf(p), 1)
            ELSE IF p = PkgIndex
            THEN << Stmt("commonjs", << D(".."), D(".."), D("A") >>) >>
            ELSE << >>],
        unreadable |-> { P(n) : n \in bad },
        tsconfig |-> TsMissing]

SmallNames == {"A", "B", "C"}
SmallPairs == { << x, y >> : x \in SmallNames, y \in SmallNames } \ { << x, x >> : x \in SmallNames }

ChainRel   == { <<"A","B">>, <<"B","C">>, <<"C","D">>, <<"D","E">> }
DiamondRel == { <<"A","B">>, <<"A","C">>, <<"B","D">>, <<"C","D">> }
CycleRel   == { <<"A","B">>, <<"B","A">> }
SelfRel    == { <<"A","A">>, <<"A","B">> }

ChainWorld   == MkWorld({"A","B","C","D","E"}, ChainRel, {}, "")
DiamondWorld == MkWorld({"A","B","C","D"}, DiamondRel, {}, "")
CycleWorld   == MkWorld({"A","B"}, CycleRel, {}, "")
ThrowWorld   == [MkWorld({"A","B","C"}, { <<"A","B">>, <<"A","C">>, <<"B","C">> }, {}, "")
                    EXCEPT !.tsconfig = TsThrowOnB]

AnWorlds ==
    { MkWorld(SmallNames, rel, bad, extra) :
        rel \in SUBSET SmallPairs, bad \in { {}, {"A"}, {"B"}, {"C"} },
        extra \in { "", "A", "B" } }
    \cup { ChainWorld, DiamondWorld, CycleWorld, ThrowWorld,
           MkWorld({"A","B"}, SelfRel, {}, ""),
           MkWorld({"A","B","C","D","E"}, ChainRel \cup { <<"E","A">>, <<"A","C">> }, {"C"}, "A") }

\* any file can be picked as root
RootsOf(w) == DOMAIN w.files

\* Bound of the analyses' inputs.
MaxDepthBound == 3     \* maxDepth ranges over -1 .. MaxDepthBound

\* analyze(rootPath, maxDepth) up to its loop
analyze(rootPath, maxDepth) ==
    /\ anPc \in {"idle", "done"}
    /\ anPc' = "running"
    /\ anRoot' = rootPath
    /\ anMaxDepth' = maxDepth
    /\ queue' = << [path |-> rootPath, depth |-> 0] >>
    /\ visited' = << >>
    /\ graph' = EmptyGraph(rootPath)
    /\ parsed' = << >>
    /\ pushed' = { [path |-> rootPath, depth |-> 0] }
    /\ UNCHANGED <<world, selVars, rsVars, svcVars, cacheVars, exVars, uiVars>>

SkipItem_NoVisited(item, seen, maxDepth) == item.depth > maxDepth

SkipItem_NoDepth(item, seen, maxDepth) == item.path \in Range(seen)

\* if (visited.has(path) || depth > maxDepth) continue
SkipItem(item, seen, maxDepth) ==
    item.path \in Range(seen) \/ item.depth > maxDepth

\* queue.push({ path: resolved, depth: depth + 1 }) for each resolved import
Pushes(resolvedPaths, depth) ==
    [i \in 1..Len(resolvedPaths) |-> [path |-> resolvedPaths[i], depth |-> depth + 1]]

NodeOf(w, path, depth, imports, resolvedPaths) ==
    [path |-> path,
     imports |-> [i \in 1..Len(imports) |-> imports[i].source],
     resolvedImports |-> resolvedPaths,
     testFiles |-> findTestFiles(w, path),
     depth |-> depth,
     selectionType |-> IF depth = 0 THEN "manual" ELSE "auto-dependency",
     isExcluded |-> FALSE]

AnStep_DepthFirst ==
    /\ anPc = "running"
    /\ queue # << >>
    /\ \E item \in { Head(queue) } :
          IF SkipItem(item, visited, anMaxDepth)
          THEN /\ queue' = Tail(queue)
               /\ UNCHANGED <<visited, graph, parsed, pushed>>
          ELSE \E imports \in { parseImports(world, item.path) } :
               \E resolvedPaths \in { ResolvedPaths(world, item.path, imports) } :
               \E items \in { Pushes(resolvedPaths, item.depth) } :
                  /\ visited' = Append(visited, item.path)
                  /\ parsed' = [p \in DOMAIN parsed \cup {item.path} |->
                                  IF p \in DOMAIN parsed
                                  THEN (IF p = item.path THEN parsed[p] + 1 ELSE parsed[p])
                                  ELSE 1]
                  /\ queue' = items \o Tail(queue)
                  /\ pushed' = pushed \cup Range(items)
                  /\ graph' = [graph EXCEPT
                        !.edges = AddEdges(@, item.path, Range(resolvedPaths)),
                        !.nodes = SetNode(@, item.path,
                                     NodeOf(world, item.path, item.depth,
                                            imports, resolvedPaths))]
    /\ UNCHANGED <<world, anPc, anRoot, anMaxDepth, selVars, rsVars, svcVars, cacheVars, exVars, uiVars>>

\* one iteration of analyze's while loop
AnStep ==
    /\ anPc = "running"
    /\ queue # << >>
    /\ \E item \in { Head(queue) } :
          IF SkipItem(item, visited, anMaxDepth)
          THEN /\ queue' = Tail(queue)
               /\ UNCHANGED <<visited, graph, parsed, pushed>>
          ELSE \E imports \in { parseImports(world, item.path) } :
               \E resolvedPaths \in { ResolvedPaths(world, item.path, imports) } :
               \E items \in { Pushes(resolvedPaths, item.depth) } :
                  /\ visited' = Append(visited, item.path)
                  /\ parsed' = [p \in DOMAIN parsed \cup {item.path} |->
                                  IF p \in DOMAIN parsed
                                  THEN (IF p = item.path THEN parsed[p] + 1 ELSE parsed[p])
                                  ELSE 1]
                  /\ queue' = Tail(queue) \o items
                  /\ pushed' = pushed \cup Range(items)
                  /\ graph' = [graph EXCEPT
                        !.edges = AddEdges(@, item.path, Range(resolvedPaths)),
                        !.nodes = SetNode(@, item.path,
                                     NodeOf(world, item.path, item.depth,
                                            imports, resolvedPaths))]
    /\ UNCHANGED <<world, anPc, anRoot, anMaxDepth, selVars, rsVars, svcVars, cacheVars, exVars, uiVars>>

\* the loop ends: graph.cycles = detectCycles(graph); return graph
AnFinish ==
    /\ anPc = "running"
    /\ queue = << >>
    /\ anPc' = "done"
    /\ graph' = [graph EXCEPT !.cycles = detectCycles(graph, visited)]
    /\ UNCHANGED <<world, anRoot, anMaxDepth, queue, visited, parsed, pushed,
                   selVars, rsVars, svcVars, cacheVars, exVars, uiVars>>

AnAnalyze == \E rootPath \in RootsOf(world) : \E maxDepth \in (-1)..MaxDepthBound :
                analyze(rootPath, maxDepth)

AnNext == AnAnalyze \/ AnStep \/ AnFinish

(***************************************************************************)
(* Smart Selection Service: analysis requests in flight.  Every request    *)
(* runs its own analyze call; the calls interleave at their awaits, one    *)
(* loop iteration at a time.                                               *)
(***************************************************************************)
Requests == {1, 2}          \* request ids, in the order they are issued

NoRequest == [pc |-> "idle", root |-> NULLPATH, maxDepth |-> 0, queue |-> << >>,
              visited |-> << >>, graph |-> EmptyGraph(NULLPATH), signal |-> "none"]

NoRequests == [r \in Requests |-> NoRequest]

\* the files clicked and the depths configured while requests overlap
ConcWorlds == { ChainWorld, DiamondWorld, CycleWorld, ThrowWorld }
ConcRoots  == { P("A"), P("B") }
ConcDepths == { 1, MaxDepthBound }

InFlight(fl, r) == fl[r].pc \in {"running", "returned"}

VisitedOf_Shared(fl, r) == fl[1].visited \o fl[2].visited

\* const visited = new Set<string>(): a local of the call
VisitedOf(fl, r) == fl[r].visited

\* analyze(rootPath, maxDepth) up to its loop, as a value
Started(rootPath, maxDepth) ==
    [pc |-> "running", root |-> rootPath, maxDepth |-> maxDepth,
     queue |-> << [path |-> rootPath, depth |-> 0] >>,
     visited |-> << >>, graph |-> EmptyGraph(rootPath), signal |-> "none"]

Iterate_DepthFirst(w, t, seen) ==
    LET item == Head(t.queue) IN
    IF SkipItem(item, seen, t.maxDepth)
    THEN [t EXCEPT !.queue = Tail(@)]
    ELSE LET imports == parseImports(w, item.path)
             resolvedPaths == ResolvedPaths(w, item.path, imports)
         IN [t EXCEPT
               !.visited = Append(@, item.path),
               !.queue = Pushes(resolvedPaths, item.depth) \o Tail(@),
               !.graph = [@ EXCEPT
                    !.edges = AddEdges(@, item.path, Range(resolvedPaths)),
                    !.nodes = SetNode(@, item.path,
                                 NodeOf(w, item.path, item.depth, imports, resolvedPaths))]]

\* one iteration of analyze's while loop, as a value; seen is its visited set
Iterate(w, t, seen) ==
    LET item == Head(t.queue) IN
    IF SkipItem(item, seen, t.maxDepth)
    THEN [t EXCEPT !.queue = Tail(@)]
    ELSE LET imports == parseImports(w, item.path)
             resolvedPaths == ResolvedPaths(w, item.path, imports)
         IN [t EXCEPT
               !.visited = Append(@, item.path),
               !.queue = Tail(@) \o Pushes(resolvedPaths, item.depth),
               !.graph = [@ EXCEPT
                    !.edges = AddEdges(@, item.path, Range(resolvedPaths)),
                    !.nodes = SetNode(@, item.path,
                                 NodeOf(w, item.path, item.depth, imports, resolvedPaths))]]

\* graph.cycles = detectCycles(graph); return graph
Returned(t) ==
    [t EXCEPT !.pc = "returned", !.graph = [@ EXCEPT !.cycles = detectCycles(t.graph, t.visited)]]

\* a request arrives and its analyze call starts; it supersedes the requests
\* in flight for the same root
request(r, rootPath, maxDepth) ==
    /\ inflight[r].pc = "idle"
    /\ \A o \in Requests : o < r => inflight[o].pc # "idle"
    /\ inflight' = [o \in Requests |->
          IF o = r THEN Started(rootPath, maxDepth)
          ELSE IF InFlight(inflight, o) /\ inflight[o].root = rootPath
          THEN [inflight[o] EXCEPT !.signal = "superseded"]
          ELSE inflight[o]]
    /\ UNCHANGED <<delivered, selVars, anVars, rsVars, cacheVars, exVars, uiVars>>

\* the wall-clock budget of a running request is exceeded
timeout(r) ==
    /\ inflight[r].pc = "running"
    /\ inflight[r].signal = "none"
    /\ inflight' = [inflight EXCEPT ![r].signal = "timeout"]
    /\ UNCHANGED <<delivered, selVars, anVars, rsVars, cacheVars, exVars, uiVars>>

\* the request's analyze call runs one iteration of its loop
iterate(r) ==
    /\ inflight[r].pc = "running"
    /\ inflight[r].queue # << >>
    /\ inflight' = [inflight EXCEPT ![r] = Iterate(world, @, VisitedOf(inflight, r))]
    /\ UNCHANGED <<delivered, selVars, anVars, rsVars, cacheVars, exVars, uiVars>>

\* the request's analyze call leaves its loop and returns
return(r) ==
    /\ inflight[r].pc = "running"
    /\ inflight[r].queue = << >>
    /\ inflight' = [inflight EXCEPT ![r] = Returned(@)]
    /\ UNCHANGED <<delivered, selVars, anVars, rsVars, cacheVars, exVars, uiVars>>

\* the returned graph is handed on, unless the request was superseded
respond(r) ==
    /\ inflight[r].pc = "returned"
    /\ IF inflight[r].signal = "superseded"
       THEN /\ inflight' = [inflight EXCEPT ![r].pc = "dropped"]
            /\ UNCHANGED delivered
       ELSE /\ inflight' = [inflight EXCEPT ![r].pc = "delivered"]
            /\ delivered' = Append(delivered, r)
    /\ UNCHANGED <<selVars, anVars, rsVars, cacheVars, exVars, uiVars>>

SvcRequest == \E r \in Requests : \E rootPath \in ConcRoots : \E maxDepth \in ConcDepths :
                 request(r, rootPath, maxDepth)
SvcTimeout == \E r \in Requests : timeout(r)
SvcIterate == \E r \in Requests : iterate(r)
SvcReturn  == \E r \in Requests : return(r)
SvcRespond == \E r \in Requests : respond(r)

SvcNext == SvcRequest \/ SvcTimeout \/ SvcIterate \/ SvcReturn \/ SvcRespond

(***************************************************************************)
(* ImportParserCache, for one file.  The file's content is named by its    *)
(* version, the number of modifications made to it; the imports parsed    *)
(* from a content carry that version.  Date.now() and the file system's   *)
(* mtime read the same clock.                                              *)
(***************************************************************************)
MaxClock   == 2     \* the clock runs from 0 to MaxClock
MaxVersion == 2     \* the file is modified at most MaxVersion times

Readers == {"p1", "p2"}

NoEntry == [present |-> FALSE, imports |-> 0, timestamp |-> 0]

IdleReader == [pc |-> "idle", cached |-> NoEntry, content |-> 0, result |-> 0,
               hit |-> FALSE]

NoReaders == [p \in Readers |-> IdleReader]

\* time passes
tick ==
    /\ clock < MaxClock
    /\ clock' = clock + 1
    /\ UNCHANGED <<file, cache, readers, selVars, anVars, rsVars, svcVars, exVars, uiVars>>

\* the file is written by an editor or a tool
modify ==
    /\ file.version < MaxVersion
    /\ file' = [mtime |-> clock, version |-> file.version + 1]
    /\ UNCHANGED <<clock, cache, readers, selVars, anVars, rsVars, svcVars, exVars, uiVars>>

\* get(filePath) up to its await: no entry is a miss, else stat the file
get(p) ==
    /\ readers[p].pc \in {"idle", "done"}
    /\ readers' = [readers EXCEPT ![p] =
          [IdleReader EXCEPT !.pc = IF cache.present THEN "stat" ELSE "miss",
                             !.cached = cache]]
    /\ UNCHANGED <<clock, file, cache, selVars, anVars, rsVars, svcVars, exVars, uiVars>>

\* if (stat.mtime > cached.timestamp)
Modified(mtime, cached) == mtime > cached.timestamp

\* get(filePath) after the stat: drop a modified file's entry, else serve it
getAfterStat(p) ==
    /\ readers[p].pc = "stat"
    /\ IF Modified(file.mtime, readers[p].cached)
       THEN /\ cache' = NoEntry
            /\ readers' = [readers EXCEPT ![p].pc = "miss"]
       ELSE /\ cache' = cache
            /\ readers' = [readers EXCEPT ![p].pc = "done", ![p].hit = TRUE,
                              ![p].result = readers[p].cached.imports]
    /\ UNCHANGED <<clock, file, selVars, anVars, rsVars, svcVars, exVars, uiVars>>

\* on a miss the file is read and parsed
parseImportsImpl(p) ==
    /\ readers[p].pc = "miss"
    /\ readers' = [readers EXCEPT ![p].pc = "parsed", ![p].content = file.version]
    /\ UNCHANGED <<clock, file, cache, selVars, anVars, rsVars, svcVars, exVars, uiVars>>

\* set(filePath, imports): the entry is stamped with Date.now()
set(p) ==
    /\ readers[p].pc = "parsed"
    /\ cache' = [present |-> TRUE, imports |-> readers[p].content, timestamp |-> clock]
    /\ readers' = [readers EXCEPT ![p].pc = "done", ![p].result = readers[p].content]
    /\ UNCHANGED <<clock, file, selVars, anVars, rsVars, svcVars, exVars, uiVars>>

CacheGet   == \E p \in Readers : get(p)
CacheStat  == \E p \in Readers : getAfterStat(p)
CacheParse == \E p \in Readers : parseImportsImpl(p)
CacheSet   == \E p \in Readers : set(p)

CacheNext == tick \/ modify \/ CacheGet \/ CacheStat \/ CacheParse \/ CacheSet

(***************************************************************************)
(* Specifications, one per subsystem                                       *)
(***************************************************************************)
NoWorld == [ws |-> WS, files |-> << >>, unreadable |-> {}, tsconfig |-> TsMissing]

EmptyCalls == [c \in Callers |-> IdleCall]


\* the state after construction, the environment being w
InitWith(w) ==
    /\ records = << >>
    /\ activeRoots = {}
    /\ update = NoUpdate
    /\ prevUpdate = Brief(NoUpdate)
    /\ rootGraphs = << >>
    /\ replayed = NoneReplayed
    /\ conc = NoCalls
    /\ world = w
    /\ anPc = "idle"
    /\ anRoot = NULLPATH
    /\ anMaxDepth = 0
    /\ queue = << >>
    /\ visited = << >>
    /\ graph = EmptyGraph(NULLPATH)
    /\ parsed = << >>
    /\ pushed = {}
    /\ tsconfigCache = "null"
    /\ pathMappings = Undefined
    /\ baseUrl = NULLPATH
    /\ calls = EmptyCalls
    /\ invalidation = NoInvalidation
    /\ inflight = NoRequests
    /\ delivered = << >>
    /\ clock = 0
    /\ file = [mtime |-> 0, version |-> 0]
    /\ cache = NoEntry
    /\ readers = NoReaders
    /\ exclusion = NoSession
    /\ selectedUris = {}
    /\ selectedUrisRef = {}
    /\ timers = << >>
    /\ xml = NoXmlCall
    /\ pendingTokenRequests = {}
    /\ tokenRequests = [r \in TokenRequestIds |-> NoTokenRequest]
    /\ tokenMessages = [answered |-> {}, posted |-> {}]

SelInit == InitWith(NoWorld)
AnInit  == \E w \in AnWorlds : InitWith(w)
RsInit  == \E w \in RsWorlds : InitWith(w)

\* the Selection Orchestrator
SpecSel == SelInit /\ [][SelNext]_vars

\* the Selection Orchestrator, the roots' graphs remembered
SpecSelTracked == SelInit /\ [][TrackNext]_vars

\* the Selection Orchestrator, one call per caller, interleaved per record
SpecSelConc == SelInit /\ [][ConcNext]_vars

\* one Dependency Analyzer, one analysis at a time
SpecAn == AnInit /\ [][AnNext]_vars

\* weak fairness of AnStep; ENABLED <<AnStep>>_vars is written out as the
\* loop condition (every iteration shifts the queue, so it changes vars)
FairStep ==
    \/ []<>~(anPc = "running" /\ queue # << >>)
    \/ []<><<AnStep>>_vars

\* the traversal loop runs to its end once started: an iteration waits on
\* nothing but the awaited parse and resolve calls, which always settle
FairSpecAn == SpecAn /\ FairStep /\ WF_vars(AnFinish)

\* the analysis requests of one service, in flight together
SvcInit == \E w \in ConcWorlds : InitWith(w)
SpecSvc == SvcInit /\ [][SvcNext]_vars

\* one ImportParserCache, its readers and the file's writers
SpecCache == SelInit /\ [][CacheNext]_vars

\* the Exclusion Filter over its sessions
SpecEx == SelInit /\ [][ExNext]_vars

\* the File Explorer under clicks, timer tasks and renders
SpecFe == SelInit /\ [][FeNext]_vars

\* resolveXmlPathToUri over workspaces and arguments
SpecXml == SelInit /\ [][XmlNext]_vars

\* the PathResolver, with the loads each clearCache() interrupted kept beside it
SpecRsTracked == RsInit /\ [][RsTrackedNext]_vars

\* countTokens requests, the extension's responses, timers and cancellation
SpecTok == SelInit /\ [][TokNext]_vars

\* the same, with every timer that is set firing in the end
FairSpecTok == SpecTok /\ \A r \in TokenRequestIds : WF_vars(timeoutFires(r))

\* one PathResolver instance with concurrent callers
SpecRs == RsInit /\ [][RsNext]_vars

(***************************************************************************)
(* Properties of the Selection Orchestrator (SpecSel)                     *)
(***************************************************************************)
StepIsRemoveOf(r) == update'.op = "removeRoot" /\ update'.root = r

\* C1  Shared-dependency protection: a file X that root R1 auto-selected stays
\* in the active selection, with R1 in X.selectedBy, through every call other
\* than removeRoot(R1); such a call never reports X in `removed`; and the
\* roots found in selectedBy sets are active roots.
C1_SharedDependencyProtection ==
    /\ [](\A X \in DOMAIN records : records[X].selectedBy \subseteq activeRoots)
    /\ [][\A X \in DOMAIN records : \A R1 \in records[X].selectedBy :
            ~StepIsRemoveOf(R1) =>
                /\ X \in Selected(records')
                /\ R1 \in records'[X].selectedBy
                /\ X \notin update'.removed]_vars

\* removeRoot(R2) returned, it did take R2 out of X.selectedBy, and X is still
\* selected by another root and was not reported removed
C1_Witness ==
    /\ update.op = "removeRoot"
    /\ \E X \in DOMAIN update.metadata :
          /\ records[X].selectedBy # {}
          /\ update.root \notin records[X].selectedBy
          /\ X \notin update.removed

\* C2  removeRoot(R) takes R out of every selectedBy set and touches nothing
\* else; `removed` is exactly the set of files that were selected before the
\* call and are selected by no root after it.  So with X selected by R1 and R2
\* the first removal does not report X and the second does.
C2_RemoveRoot ==
    [][update'.op = "removeRoot" =>
        LET R == update'.root
        IN /\ DOMAIN records' = DOMAIN records
           /\ \A p \in DOMAIN records :
                /\ records'[p].selectedBy = records[p].selectedBy \ {R}
                /\ records'[p].minDepth = records[p].minDepth
           /\ update'.removed = Selected(records) \ Selected(records')
           /\ \A p \in update'.removed : records[p].selectedBy = {R}
           /\ update'.added = {}]_vars

\* two removals in a row, of the two roots that selected X: the first did not
\* report X, the second did
C2_Witness ==
    /\ prevUpdate.op = "removeRoot" /\ update.op = "removeRoot"
    /\ prevUpdate.root # update.root
    /\ "X" \in prevUpdate.touched /\ "X" \notin prevUpdate.removed
    /\ "X" \in update.removed

\* C3  applyRoot(R, graph) puts R into the selectedBy set of every node of the
\* graph other than R, creating missing records, and leaves every other
\* selectedBy set as it was; `added` is exactly the nodes other than R that no
\* root selected before the call.
C3_ApplyRoot ==
    [][update'.op = "applyRoot" =>
        LET R == update'.root
            nodes == DOMAIN update'.nodes \ {R}
        IN /\ DOMAIN records' = DOMAIN records \cup nodes
           /\ \A p \in nodes :
                records'[p].selectedBy =
                    (IF p \in DOMAIN records THEN records[p].selectedBy ELSE {}) \cup {R}
           /\ \A p \in DOMAIN records \ nodes :
                records'[p].selectedBy = records[p].selectedBy
           /\ update'.added = {p \in nodes : p \notin Selected(records)}
           /\ update'.removed = {}]_vars

\* applyRoot reached a node another root already selected: it gained the root
\* and was not reported, while a new node was reported
C3_Witness ==
    /\ update.op = "applyRoot"
    /\ "X" \in DOMAIN update.nodes /\ "A" \in DOMAIN update.nodes
    /\ update.added = {"A"}
    /\ Cardinality(records["X"].selectedBy) = 2
    /\ update.root \in records["X"].selectedBy

(***************************************************************************)
(* Properties of the Dependency Analyzer (SpecAn, FairSpecAn)             *)
(*                                                                         *)
(* The reference import relation is read off the file set itself, without  *)
(* the analyzer's parser, resolver or filter: what each uncommented        *)
(* statement of a readable source file denotes.                            *)
(***************************************************************************)
InNodeModules(p) == \E i \in 1..Len(p) : p[i].n = "node_modules"

\* the files a specifier written in `from` denotes (none, or one)
Denotes(w, from, source) ==
    IF w.tsconfig = TsThrowOnB /\ source = << D("."), D("B") >> THEN {}
    ELSE IF from = PkgIndex
    THEN { P("A") : x \in { y \in {1} : source = << D(".."), D(".."), D("A") >> } }
    ELSE IF Len(source) = 2 /\ source[1] = D(".") /\ source[2].x = << >>
    THEN { p \in DOMAIN w.files : p = P(source[2].n) }
    ELSE IF source = << D("."), F("data", ".json") >> THEN { DataJson }
    ELSE IF source = << D("."), D("node_modules"), D("pkg") >> THEN { PkgIndex }
    ELSE {}

Readable(w, u) ==
    /\ u \in DOMAIN w.files /\ u \notin w.unreadable
    /\ u[Len(u)].x # << >> /\ u[Len(u)].x[Len(u[Len(u)].x)] # ".json"

\* the specifiers written in u, outside comments
Written(w, u) ==
    IF Readable(w, u)
    THEN { w.files[u][i].source : i \in { j \in DOMAIN w.files[u] : ~w.files[u][j].commented } }
    ELSE {}

\* the project files u imports
RefImports(w, u) ==
    { v \in UNION { Denotes(w, u, src) : src \in Written(w, u) } : ~InNodeModules(v) }

\* the files within k imports of root
RECURSIVE Within(_, _, _)
Within(w, root, k) ==
    IF k < 0 THEN {}
    ELSE IF k = 0 THEN {root}
    ELSE LET near == Within(w, root, k - 1)
         IN near \cup UNION { RefImports(w, u) : u \in near }

\* the length of the shortest import path from root to v (v within MaxDepthBound + 1)
Dist(w, root, v) ==
    CHOOSE k \in 0..(MaxDepthBound + 1) :
        v \in Within(w, root, k) /\ v \notin Within(w, root, k - 1)

DepthOf == [n \in DOMAIN graph.nodes |-> graph.nodes[n].depth]

ChainRun(d) == world = ChainWorld /\ anRoot = P("A") /\ anMaxDepth = d

C5_MinimumDepth ==
    /\ [](\A n \in DOMAIN graph.nodes :
            graph.nodes[n].depth = Dist(world, anRoot, n))
    /\ [][anPc = "running" =>
            \A n \in DOMAIN graph.nodes :
                /\ n \in DOMAIN graph'.nodes
                /\ graph'.nodes[n].depth = graph.nodes[n].depth]_vars

\* a file with a short and a long path from the root (A->C and A->B->C) was
\* reached again through the long one after it had its depth
C5_Witness ==
    /\ anPc = "done" /\ anRoot = P("A")
    /\ P("C") \in DOMAIN graph.nodes /\ graph.nodes[P("C")].depth = 1
    /\ [path |-> P("C"), depth |-> 2] \in pushed

CycleRun == world = CycleWorld /\ anRoot = P("A") /\ anMaxDepth >= 1

\* C6  analyze terminates, cyclic imports included: a started traversal reaches
\* its end; no file is parsed twice in one traversal; for A->B, B->A the nodes
\* are exactly {A@0, B@1} and a recorded cycle contains both A and B.
C6_TerminatesOnCycles ==
    /\ (anPc = "running") ~> (anPc = "done")
    /\ [](\A p \in DOMAIN parsed : parsed[p] = 1)
    /\ []((CycleRun /\ anPc = "done") =>
            /\ DepthOf = (P("A") :> 0) @@ (P("B") :> 1)
            /\ \E cyc \in graph.cycles : {P("A"), P("B")} \subseteq Range(cyc))

\* the two-file cycle was analysed to its end: the import of A by B was queued
\* and a cycle was recorded
C6_Witness ==
    /\ CycleRun /\ anPc = "done"
    /\ [path |-> P("A"), depth |-> 2] \in pushed
    /\ << P("A"), P("B"), P("A") >> \in graph.cycles

EdgeSet == UNION { { << u, v >> : v \in graph.edges[u] } : u \in DOMAIN graph.edges }

DiamondRun == world = DiamondWorld /\ anRoot = P("A") /\ anMaxDepth >= 2

\* C7  One node per file, one edge per import: a file is parsed once however
\* many imports reach it; between two nodes there is an edge exactly when the
\* first imports the second, also when the second was visited before; the
\* diamond at maxDepth >= 2 gives D once, at depth 2, and the edges
\* A->B, A->C, B->D, C->D.
C7_DiamondAndEdges ==
    anPc = "done" =>
        /\ \A u \in DOMAIN graph.nodes :
              /\ Cardinality({ i \in DOMAIN visited : visited[i] = u }) = 1
              /\ \A v \in DOMAIN graph.nodes :
                    HasEdge(graph.edges, u, v) <=> v \in RefImports(world, u)
        /\ DiamondRun =>
              /\ DepthOf = (P("A") :> 0) @@ (P("B") :> 1) @@ (P("C") :> 1) @@ (P("D") :> 2)
              /\ EdgeSet = { << P("A"), P("B") >>, << P("A"), P("C") >>,
                             << P("B"), P("D") >>, << P("C"), P("D") >> }

\* the diamond was analysed: D was queued by B and by C, and both edges are there
C7_Witness ==
    /\ DiamondRun /\ anPc = "done"
    /\ HasEdge(graph.edges, P("B"), P("D")) /\ HasEdge(graph.edges, P("C"), P("D"))
    /\ Len(visited) = 4

\* a file whose imports cannot be obtained at all
Unparsed(w, u) == ~Readable(w, u)

\* a file with an import on which the resolver throws
ResolverFails(w, u) ==
    w.tsconfig = TsThrowOnB /\ << D("."), D("B") >> \in Written(w, u)

GraphComplete ==
    DOMAIN graph.nodes = Within(world, anRoot, anMaxDepth)

\* C8 as stated: a file on which reading, extracting or resolving fails is a
\* node with empty derived fields that is not expanded; the graph still holds
\* every other reachable file within the depth bound.
C8_Original ==
    anPc = "done" =>
        /\ \A u \in DOMAIN graph.nodes :
              (Unparsed(world, u) \/ ResolverFails(world, u)) =>
                  /\ graph.nodes[u].imports = << >>
                  /\ graph.nodes[u].resolvedImports = << >>
                  /\ u \notin DOMAIN graph.edges
        /\ GraphComplete

\* C8 (amended)  Fault isolation: a file whose read or extraction fails is a
\* node with empty rawImports and resolvedImports and is not expanded; an
\* import whose resolution fails (null, or an exception inside the resolver)
\* loses its edge only, the file keeps its rawImports and its other imports
\* are expanded; the traversal goes on and the returned graph holds exactly
\* the files within maxDepth imports of the root along imports of readable
\* files that resolve and are not excluded.
C8_FaultIsolation ==
    anPc = "done" =>
        /\ \A u \in DOMAIN graph.nodes :
              /\ Unparsed(world, u) =>
                    /\ graph.nodes[u].imports = << >>
                    /\ graph.nodes[u].resolvedImports = << >>
                    /\ u \notin DOMAIN graph.edges
              /\ ~Unparsed(world, u) =>
                    /\ Range(graph.nodes[u].imports) = Written(world, u)
                    /\ Range(graph.nodes[u].resolvedImports) = RefImports(world, u)
                    /\ \A v \in RefImports(world, u) : HasEdge(graph.edges, u, v)
        /\ GraphComplete

\* an unreadable file was reached as a dependency and files were visited after
\* it; and, in another run, the resolver threw on one import of the root and
\* the root's other import was still followed
C8_Witness ==
    /\ anPc = "done"
    /\ \/ \E i \in DOMAIN visited :
             /\ 1 < i /\ i < Len(visited)
             /\ visited[i] \in world.unreadable
       \/ /\ world = ThrowWorld /\ anRoot = P("A")
          /\ P("C") \in DOMAIN graph.nodes /\ P("B") \notin DOMAIN graph.nodes

\* C9  Nothing external becomes a node: no node but the root, no queued
\* neighbour and no edge target lies in node_modules, every node but the root
\* is a project file some node imports, and a node's rawImports lists every
\* specifier written in the file, the external ones included.
C9_ExternalNeverNode ==
    /\ \A n \in DOMAIN graph.nodes : n # anRoot =>
          /\ ~InNodeModules(n)
          /\ \E u \in DOMAIN graph.nodes : n \in RefImports(world, u)
    /\ \A item \in pushed : item.depth >= 1 => ~InNodeModules(item.path)
    /\ \A e \in EdgeSet : ~InNodeModules(e[2])
    /\ \A u \in DOMAIN graph.nodes : Written(world, u) \subseteq Range(graph.nodes[u].imports)

\* a node imports "react" and "./node_modules/pkg": both are in its rawImports
\* and the package's index file is no node
C9_Witness ==
    /\ anPc = "done"
    /\ PkgIndex \notin DOMAIN graph.nodes
    /\ \E u \in DOMAIN graph.nodes :
          /\ << D("react") >> \in Range(graph.nodes[u].imports)
          /\ << D("."), D("node_modules"), D("pkg") >> \in Range(graph.nodes[u].imports)
          /\ graph.nodes[u].resolvedImports # << >>

(***************************************************************************)
(* Properties of the Path Resolver (SpecRs)                               *)
(***************************************************************************)
\* the specifiers that begin neither with "." nor with "/"
BareSpecifiers ==
    { << D("react") >>, << D("@company"), D("utils") >>, EmptyString,
      << D("@"), D("utils"), D("bar") >> }

KnownSuffixes == << ".ts", ".tsx", ".js", ".jsx", ".mjs", ".cjs" >>

IndexFiles == << F("index", ".ts"), F("index", ".tsx"), F("index", ".js"), F("index", ".jsx") >>

\* the bases a pattern of the alias table yields for a specifier
AliasBasesOf(ws, base, entry, importPath) ==
    IF PatternMatches(entry.pattern, importPath)
    THEN [t \in 1..Len(entry.targets) |->
            pathJoin(ws, base \o Substitute(entry.targets[t],
                                            MatchedPart(entry.pattern, importPath)))]
    ELSE << >>

RECURSIVE AliasBases(_, _, _, _)
AliasBases(ws, base, entries, importPath) ==
    IF entries = << >> THEN << >>
    ELSE AliasBasesOf(ws, base, Head(entries), importPath)
         \o AliasBases(ws, base, Tail(entries), importPath)

\* alias-substituted bases, then the base relative to the importing file's
\* directory, then the base under baseUrl
BasesInOrder(ws, mappings, base, importPath, currentFilePath) ==
    (IF mappings.defined THEN AliasBases(ws, base, mappings.entries, importPath) ELSE << >>)
    \o << pathResolve(dirname(currentFilePath), importPath) >>
    \o (IF base = NULLPATH THEN << >> ELSE << pathJoin(ws, base \o importPath) >>)

\* the candidates of one base: verbatim only with a known suffix
CandidatesKnownSuffix(b) ==
    (IF \E i \in 1..Len(KnownSuffixes) : extname(b) = KnownSuffixes[i]
     THEN << b >> ELSE << >>)
    \o [i \in 1..Len(KnownSuffixes) |-> withExt(b, KnownSuffixes[i])]
    \o [i \in 1..Len(IndexFiles) |-> Append(b, IndexFiles[i])]

\* the candidates of one base: verbatim with any suffix
CandidatesAnySuffix(b) ==
    (IF extname(b) # "" THEN << b >> ELSE << >>)
    \o [i \in 1..Len(KnownSuffixes) |-> withExt(b, KnownSuffixes[i])]
    \o [i \in 1..Len(IndexFiles) |-> Append(b, IndexFiles[i])]

\* the first existing candidate of the first base that has one; null for none
FirstCandidate(w, bases, Cand(_)) ==
    LET has(i) == \E k \in 1..Len(Cand(bases[i])) : Exists(w, Cand(bases[i])[k])
        hits   == { i \in 1..Len(bases) : has(i) }
    IN IF hits = {} THEN NULLPATH
       ELSE LET cs == Cand(bases[CHOOSE i \in hits : \A j \in hits : i <= j])
                ok == { k \in 1..Len(cs) : Exists(w, cs[k]) }
            IN cs[CHOOSE k \in ok : \A j \in ok : k <= j]

\* every pattern of the alias table yields a regex and a list of targets
WellFormed(mappings) ==
    \A i \in 1..Len(mappings.entries) :
        ~mappings.entries[i].pattern.badRegex /\ mappings.entries[i].iterable

\* caller c's call returns in this step, from a well-formed alias table
Returns(c) ==
    calls[c].pc = "find" /\ calls'[c].pc = "done" /\ WellFormed(pathMappings)

AliasMatchingFails(mappings, importPath) ==
    \E i \in 1..Len(mappings.entries) :
        \/ mappings.entries[i].pattern.badRegex
        \/ /\ PatternMatches(mappings.entries[i].pattern, importPath)
           /\ ~mappings.entries[i].iterable

\* C12  resolve never throws: a call that has returned gave null or a path
\* that exists; a call during which alias matching fails returns null; with a
\* missing or unparsable tsconfig.json a specifier resolves exactly as the
\* candidates relative to the importing file decide.
C12_NeverThrows ==
    /\ [](\A c \in Callers : calls[c].pc = "done" =>
            calls[c].result = NULLPATH \/ Exists(world, calls[c].result))
    /\ [][\A c \in Callers :
            (calls[c].pc = "find" /\ calls'[c].pc = "done") =>
                /\ AliasMatchingFails(pathMappings, calls[c].spec) =>
                      calls'[c].result = NULLPATH
                /\ world.tsconfig.kind \in {"missing", "invalid"} =>
                      calls'[c].result =
                          FirstCandidate(world,
                              << pathResolve(dirname(calls[c].file), calls[c].spec) >>,
                              CandidatesAnySuffix)]_vars

\* "./B" was answered null because no regex could be built from an alias
\* pattern, although src/B.tsx is on disk
C12_Witness ==
    /\ world.tsconfig = TsBadRegex
    /\ Exists(world, WS \o << D("src"), F("B", ".tsx") >>)
    /\ \E c \in Callers :
          /\ calls[c].pc = "done" /\ calls[c].spec = << D("."), D("B") >>
          /\ calls[c].result = NULLPATH
          /\ Len(calls[c].io) = 2

\* the depths the contributing roots' graphs give file p
ContributedDepths(p) ==
    { rootGraphs[r][p] : r \in { q \in records[p].selectedBy \cap DOMAIN rootGraphs :
                                     p \in DOMAIN rootGraphs[q] } }

\* C13  Every selection record's minDepth is the smallest depth of its file
\* over the graphs of the roots currently in its selectedBy set.
C13_MinDepth ==
    \A p \in DOMAIN records :
        ContributedDepths(p) # {} =>
            /\ records[p].minDepth \in ContributedDepths(p)
            /\ \A d \in ContributedDepths(p) : records[p].minDepth <= d

\* C14  A file that is an active, manually selected root is never reported in
\* `removed` by the removal of a different root, also when it is a dependency
\* of the removed root.
C14_ManualUntouched ==
    [][update'.op = "removeRoot" =>
          \A p \in activeRoots' : p \notin update'.removed]_vars

\* records and outputs of call a followed by call b, each run alone
RecordsAfter(recs, call) ==
    IF call.op = "applyRoot" THEN ApplyRecords(recs, call.root, call.g)
    ELSE RemoveRecords(recs, call.root)

AddedBy(recs, call) ==
    IF call.op = "applyRoot" THEN ApplyAdded(recs, call.root, call.g) ELSE {}

RemovedBy(recs, call) ==
    IF call.op = "removeRoot" THEN RemoveRemoved(recs, call.root) ELSE {}

\* the interleaved calls ended as call a then call b would have, from no records
AsInOrder(a, b) ==
    LET mid == RecordsAfter(<< >>, conc[a])
        end == RecordsAfter(mid, conc[b])
    IN /\ \A p \in SelFiles :
             (IF p \in DOMAIN records THEN records[p].selectedBy ELSE {})
             = (IF p \in DOMAIN end THEN end[p].selectedBy ELSE {})
       /\ conc[a].added = AddedBy(<< >>, conc[a])
       /\ conc[a].removed = RemovedBy(<< >>, conc[a])
       /\ conc[b].added = AddedBy(mid, conc[b])
       /\ conc[b].removed = RemovedBy(mid, conc[b])

\* C15  Two calls of different callers, interleaved with each record's
\* read-modify-write atomic, leave the selectedBy sets and return the added
\* and removed sets that one of the two sequential orders of the calls gives.
C15_Serializable ==
    (\A c \in SelCallers : conc[c].pc = "done") =>
        AsInOrder("u1", "u2") \/ AsInOrder("u2", "u1")

(***************************************************************************)
(* Properties of the analysis requests in flight (SpecSvc)                *)
(***************************************************************************)
Signalled(r) == inflight[r].pc = "running" /\ inflight[r].signal # "none"

\* C16: once cancellation or timeout has been signalled to a running
\* traversal, it dequeues and reads no further file: its queue, visited set
\* and graph stay as they are at the frontier, and what it returns is that
\* partial graph.
C16_StopsAtFrontier ==
    [][\A r \in Requests : Signalled(r) =>
          /\ inflight'[r].queue = inflight[r].queue
          /\ inflight'[r].visited = inflight[r].visited
          /\ inflight'[r].graph.nodes = inflight[r].graph.nodes
          /\ inflight'[r].graph.edges = inflight[r].graph.edges]_vars

Superseded(r) == inflight[r].signal = "superseded"

\* C17: a request superseded by a newer one for the same root has its
\* in-flight state discarded (its traversal goes no further) and its graph
\* is never delivered, whichever traversal finishes first.
C17_StaleNeverDelivered ==
    /\ [](\A r \in Requests : Superseded(r) => r \notin Range(delivered))
    /\ [][\A r \in Requests : Superseded(r) /\ inflight[r].pc = "running" =>
             /\ inflight'[r].queue = inflight[r].queue
             /\ inflight'[r].visited = inflight[r].visited]_vars

\* the graph analyze returns when nothing else runs
RECURSIVE RunAlone(_, _)
RunAlone(w, t) ==
    IF t.queue = << >> THEN Returned(t).graph
    ELSE RunAlone(w, Iterate(w, t, t.visited))

HasReturned(r) == inflight[r].pc \in {"returned", "delivered", "dropped"}

\* C18: a request's analysis, interleaved with another's at any await,
\* returns the graph it returns when run alone on the same file set.
C18_Isolation ==
    \A r \in Requests : HasReturned(r) =>
        inflight[r].graph = RunAlone(world, Started(inflight[r].root, inflight[r].maxDepth))

\* request 2 started while request 1 (another root) was traversing, both read
\* a common file, and request 2 returned first
C18_Witness ==
    /\ inflight[1].pc = "running" /\ inflight[1].visited # << >>
    /\ inflight[2].pc = "returned"
    /\ inflight[1].root # inflight[2].root
    /\ Range(inflight[1].visited) \cap Range(inflight[2].visited) # {}
    /\ Len(inflight[2].visited) >= 2

(***************************************************************************)
(* Properties of the ImportParserCache (SpecCache)                        *)
(***************************************************************************)
ServesCached(p) == readers[p].pc = "stat" /\ readers'[p].pc = "done"

\* C19: a read is served from the cache only if the file has not been
\* modified since the content the cached imports were parsed from was read,
\* that is, only if they were parsed from the file's current content.
C19_NeverStale ==
    [][\A p \in Readers : ServesCached(p) => readers'[p].result = file.version]_vars

(***************************************************************************)
(* Properties of the Path Resolver's tsconfig cache (SpecRs)              *)
(***************************************************************************)
\* the table a single load of the workspace's tsconfig.json leaves
SinglePopulation == LoadedConfig(world.tsconfig)

Table == [pathMappings |-> pathMappings, baseUrl |-> baseUrl]

Populates(c) == calls[c].pc \in {"statted", "reading"} /\ calls'[c].pc = "find"

TsIO(call) == { i \in 1..Len(call.io) : call.io[i].path = TsconfigPath(world) }

Starts(c) == calls[c].pc \in {"idle", "done"} /\ calls'[c].pc \notin {"idle", "done"}

StatOfTsconfig == [op |-> "stat", path |-> TsconfigPath(world)]
ReadOfTsconfig == [op |-> "readFile", path |-> TsconfigPath(world)]

NodeCeiling == 2

Truncated(g) == "truncated" \in DOMAIN g /\ g.truncated

\* C22: with a node-count ceiling configured, a traversal whose visited
\* nodes have crossed the ceiling visits no further node and returns a graph
\* flagged truncated; a traversal that stays within it returns an unflagged
\* graph.
C22_NodeCeiling ==
    /\ [][Len(visited) > NodeCeiling /\ anPc = "running" => visited' = visited]_vars
    /\ [](anPc = "done" => (Truncated(graph) <=> Len(visited) > NodeCeiling))

\* the nodes a cycle can pass through: those with an outgoing edge
Sources(g) == { u \in DOMAIN g.edges : g.edges[u] # {} }

\* the closed walks n1 .. nk n1 over distinct nodes along edges of g
ClosedPaths(g) ==
    UNION { { q \o << q[1] >> :
                q \in { f \in [1..k -> Sources(g)] :
                          /\ \A i, j \in 1..k : i # j => f[i] # f[j]
                          /\ \A i \in 1..k :
                                f[IF i = k THEN 1 ELSE i + 1] \in g.edges[f[i]] } } :
            k \in 1..Cardinality(Sources(g)) }

\* the same cycle written from another of its nodes
Rotation(c, d) ==
    /\ Len(c) = Len(d)
    /\ \E s \in 0..(Len(c) - 2) :
          \A i \in 1..(Len(c) - 1) : d[i] = c[((i - 1 + s) % (Len(c) - 1)) + 1]

\* C23: the cycles of a returned graph are closed simple paths along its
\* edges, and every simple cycle among its edges is recorded, once:
\* A->B->A from A gives [A, B, A]; A->B->C->A gives [A, B, C, A].
C23_Cycles ==
    anPc = "done" =>
        /\ graph.cycles \subseteq ClosedPaths(graph)
        /\ \A c \in ClosedPaths(graph) :
              Cardinality({ d \in graph.cycles : Rotation(c, d) }) = 1
        /\ (world = CycleWorld /\ anRoot = P("A") /\ anMaxDepth >= 1 =>
              graph.cycles = { << P("A"), P("B"), P("A") >> })

\* a finished analysis of A -> B -> C -> A, and one of two cycles through A
ThreeCycle == { <<"A","B">>, <<"B","C">>, <<"C","A">> }

C23_Witness ==
    /\ anPc = "done" /\ anRoot = P("A")
    /\ \/ /\ world = MkWorld(SmallNames, ThreeCycle, {}, "")
          /\ graph.cycles = { << P("A"), P("B"), P("C"), P("A") >> }
       \/ /\ world = MkWorld(SmallNames, { <<"A","B">>, <<"B","A">>, <<"A","C">>, <<"C","A">> }, {}, "")
          /\ Cardinality(graph.cycles) = 2

(***************************************************************************)
(* Further properties of the analysis requests (SpecSvc)                  *)
(***************************************************************************)
NodeSet(g)  == DOMAIN g.nodes
EdgePairs(g) == UNION { { << u, v >> : v \in g.edges[u] } : u \in DOMAIN g.edges }
Depths(g)   == [n \in DOMAIN g.nodes |-> g.nodes[n].depth]

SameCall(a, b) ==
    inflight[a].root = inflight[b].root /\ inflight[a].maxDepth = inflight[b].maxDepth

ImportedBy(g, b) == IF b \in DOMAIN g.reverseEdges THEN g.reverseEdges[b] ELSE {}
ImportsOf(g, a)  == IF a \in DOMAIN g.edges THEN g.edges[a] ELSE {}

Endpoints(g) ==
    DOMAIN g.edges \cup DOMAIN g.reverseEdges
       \cup UNION { g.edges[a] : a \in DOMAIN g.edges }
       \cup UNION { g.reverseEdges[b] : b \in DOMAIN g.reverseEdges }

\* C25: in a returned graph, a is in reverseEdges[b] exactly if b is in
\* edges[a].
C25_ReverseEdges ==
    anPc = "done" =>
        \A a, b \in Endpoints(graph) :
            a \in ImportedBy(graph, b) <=> b \in ImportsOf(graph, a)

\* C26: the nodes of a traversal are finalized (visited, and their node
\* written) in non-decreasing depth order.
C26_DepthOrder ==
    \A i, j \in 1..Len(visited) :
        i < j => graph.nodes[visited[i]].depth <= graph.nodes[visited[j]].depth

\* the diamond A -> {B, C} -> D, traversed to the end: D, at depth 2, was
\* queued by B before C, at depth 1, was finalized
C26_Witness ==
    /\ world = DiamondWorld /\ anRoot = P("A") /\ anPc = "done"
    /\ visited = << P("A"), P("B"), P("C"), P("D") >>
    /\ graph.nodes[P("C")].depth = 1 /\ graph.nodes[P("D")].depth = 2

\* the largest maxDepth a configuration may carry
MaxValidDepth == 20

\* C27: an analyze call with maxDepth outside 0..20 is rejected before the
\* traversal begins: it never runs, reads no file and returns no graph.
C27_RejectsInvalidDepth ==
    /\ [][anPc' = "running" /\ anPc # "running" => anMaxDepth' \in 0..MaxValidDepth]_vars
    /\ [](anPc \in {"running", "done"} /\ anMaxDepth \notin 0..MaxValidDepth =>
             parsed = << >> /\ anPc # "done")

(***************************************************************************)
(* Properties of the Exclusion Filter (SpecEx)                            *)
(***************************************************************************)
InDependencyDirectory(path) == \E i \in 1..Len(path) : path[i].n = "node_modules"

EndsWith(path, suffix) ==
    \E k \in 0..Len(path[Len(path)].x) :
        SubSeq(path[Len(path)].x, k + 1, Len(path[Len(path)].x)) = suffix

\* the ignore file's patterns that are in force for the session
InForce ==
    IF exclusion.config.respectIgnoreFile /\ exclusion.ignoreFile.exists
    THEN exclusion.ignoreFile.rules ELSE {}

Checked == exclusion.open /\ exclusion.path # NULLPATH

\* C28: the result of shouldExclude is the reason of the first check that
\* matches, in the order externally-managed directory, ignore-file pattern
\* (when respectIgnoreFile is set), user pattern, and "not excluded" when
\* none does; a missing ignore file counts as no rules and raises no error.
C28_CheckOrder ==
    Checked =>
        LET p == exclusion.path
            a == InDependencyDirectory(p)
            b == \E s \in InForce : EndsWith(p, s)
            c == \E s \in exclusion.config.exclusionPatterns : EndsWith(p, s)
        IN /\ ~exclusion.error
           /\ exclusion.result =
                 IF a THEN [excluded |-> TRUE, reason |-> "externally-managed"]
                 ELSE IF b THEN [excluded |-> TRUE, reason |-> "ignore-rule"]
                 ELSE IF c THEN [excluded |-> TRUE, reason |-> "user-pattern"]
                 ELSE [excluded |-> FALSE, reason |-> "none"]

\* /ws/src/foo.test.ts matches both the ignore file's *.test.ts and the
\* user's *.test.ts: the ignore rule is the reason reported
C28_Witness ==
    /\ Checked
    /\ exclusion.path = WS \o << D("src"), Seg("foo", << ".test", ".ts" >>) >>
    /\ exclusion.config.respectIgnoreFile
    /\ TestFiles \in exclusion.ignoreFile.rules
    /\ TestFiles \in exclusion.config.exclusionPatterns
    /\ exclusion.result.reason = "ignore-rule"

(***************************************************************************)
(* Further properties of the Path Resolver (SpecRs)                       *)
(***************************************************************************)
AtUtilsBar == << D("@"), D("utils"), D("bar") >>                   \* "@/utils/bar"
SrcUtilsBar == WS \o << D("src"), D("utils"), F("bar", ".ts") >>   \* "/ws/src/utils/bar.ts"

\* the step in which a call of c returns
Completes(c) == calls'[c] # calls[c] /\ calls'[c].pc = "done"

\* C31: every non-null path returned by resolve lies inside workspaceRoot,
\* whatever the specifier (any number of "../") and the importing file.
C31_InsideWorkspace ==
    [][\A c \in Callers :
          Completes(c) /\ calls'[c].result # NULLPATH
              => IsPrefix(world.ws, calls'[c].result)]_vars

\* C32: the statements the import extractor returns are ordered by their
\* position in the source text, whatever the mix of forms: a require on an
\* earlier line precedes a static import on a later line.
C32_SourcePosition ==
    \A p \in DOMAIN parsed :
        parsed[p] > 0 =>
            LET imports == parseImports(world, p)
            IN \A i, j \in 1..Len(imports) :
                   i < j => imports[i].line < imports[j].line

\* C33: subtree selection changes only the subtree: 'select all' on a folder
\* yields the current selection plus every URI of the folder's subtree,
\* 'deselect all' the current selection minus every URI of the subtree, and
\* every URI outside the subtree keeps its selection state.
Descendants(uri) ==
    LET Step(S) == S \cup UNION { Range(subItems(u)) : u \in S }
    IN  Step(Step(Step({uri})))
Location(uri) == NormalizeFrom(<< D("") >>, Tail(uri))
C34_InsideWorkspace ==
    xml.done /\ ~xml.result.throws =>
        \E i \in 1..Len(xml.folders.list) :
            IsPrefix(xml.folders.list[i].uri, Location(xml.result.uri))

\* C35: starting from the empty selection, applying the added and removed
\* sets of every SelectionUpdate in order reproduces exactly the set of files
\* with a non-empty selectedBy; no file is reported added twice without a
\* removal in between, nor removed without having been added.
C35_DeltaConsistency ==
    /\ replayed.files = { p \in DOMAIN records : records[p].selectedBy # {} }
    /\ ~replayed.addedTwice
    /\ ~replayed.removedUnadded
\* a removal has reported files while others stay selected by another root
C35_Witness ==
    /\ update.op = "removeRoot" /\ update.removed # {}
    /\ replayed.files # {}
    /\ \E p \in DOMAIN records : records[p].selectedBy = {}

\* C37: in any reachable state where R is not active, applyRoot(R, g) followed
\* at once by removeRoot(R) restores every record (selectedBy and minDepth)
\* and the active selection, and `removed` of the second call equals `added`
\* of the first.
C37_RoundTrip ==
    \A R \in SelRoots \ activeRoots : \A g \in GraphsOf(R) :
        LET applied == ApplyRecords(records, R, g)
            after   == RemoveRecords(applied, R)
        IN /\ \A p \in DOMAIN records : after[p] = records[p]
           /\ \A p \in DOMAIN after \ DOMAIN records : after[p].selectedBy = {}
           /\ (activeRoots \cup {R}) \ {R} = activeRoots
           /\ RemoveRemoved(applied, R) = ApplyAdded(records, R, g)

\* C36: edges are closed over nodes: in every graph analyze returns, both
\* ends of each edge u -> v are keys of `nodes`, also when v lies one level
\* beyond maxDepth.
C36_EdgesClosed ==
    anPc = "done" =>
        \A e \in EdgePairs(graph) : e[1] \in NodeSet(graph) /\ e[2] \in NodeSet(graph)

\* C38: a partial graph is a depth-prefix of the full graph: the graph a
\* traversal holds at the frontier where a timeout or a cancellation finds it,
\* and the graph it returns, give every node the depth it has in the complete
\* graph, and with a node at depth d+1 hold every node the complete graph has
\* at depth <= d.
DepthPrefix(g, full) ==
    /\ \A n \in NodeSet(g) :
           n \in NodeSet(full) /\ g.nodes[n].depth = full.nodes[n].depth
    /\ \A n \in NodeSet(g) : \A m \in NodeSet(full) :
           full.nodes[m].depth < g.nodes[n].depth => m \in NodeSet(g)
C39_InvalidationHolds ==
    /\ [][\A c \in Callers :
             Loaded(c) /\ c \in invalidation.stale =>
                 /\ tsconfigCache' = "null"
                 /\ pathMappings' = Undefined /\ baseUrl' = NULLPATH]_vars
    /\ [][\A c \in Callers :
             /\ calls[c].pc \in {"idle", "done"} /\ calls'[c] # calls[c]
             /\ ~isExternalPackage(calls'[c].spec)
             /\ invalidation.pending
             => calls'[c].pc = "statted"]_vars

\* the response delivered to request r in this step, if any
Delivered(r) ==
    { m \in tokenMessages.posted \ tokenMessages'.posted : m.requestId = r }
FirstSettles(r) ==
    /\ tokenRequests[r].pc = "pending"
    /\ tokenRequests[r].resolved = << >> /\ tokenRequests'[r].resolved # << >>
\* what holds of a request however it settles: it settles in the end, once;
\* it then is out of pendingTokenRequests with its listener removed, and
\* nothing that comes later (response, timer, cancellation) touches it
SettlesOnce ==
    /\ \A r \in TokenRequestIds :
          (tokenRequests[r].pc = "pending") ~> (Len(tokenRequests[r].resolved) = 1)
    /\ [](\A r \in TokenRequestIds :
            /\ Len(tokenRequests[r].resolved) <= 1
            /\ tokenRequests[r].resolved # << >> =>
                  r \notin pendingTokenRequests /\ ~tokenRequests[r].listener)
    /\ [][\A r \in TokenRequestIds :
             tokenRequests[r].resolved # << >> => tokenRequests'[r] = tokenRequests[r]]_vars

\* C40 as stated: every countTokens request with a non-empty text settles
\* exactly once, with the extension's count if its tokenCountResponse arrives
\* first, else with ceil(length/4) on cancelPendingTokenRequests or on the
\* 5-second timeout; once settled it is out of pendingTokenRequests, its
\* listener is removed, and a late response or timer changes nothing.
C40_Original ==
    /\ SettlesOnce
    /\ [][\A r \in TokenRequestIds : FirstSettles(r) =>
             IF Delivered(r) # {}
             THEN \A m \in Delivered(r) : tokenRequests'[r].resolved = << m.tokenCount >>
             ELSE tokenRequests'[r].resolved = << Fallback(tokenRequests[r].length) >>]_vars

\* C40 amended: as above, but a response that arrives first settles the
\* request with its count only when the count is not zero; a response
\* without a count, or with the count zero, settles it with ceil(length/4).
C40_SettlesOnce ==
    /\ SettlesOnce
    /\ [][\A r \in TokenRequestIds : FirstSettles(r) =>
             IF \E m \in Delivered(r) : m.tokenCount # 0
             THEN \A m \in Delivered(r) : tokenRequests'[r].resolved = << m.tokenCount >>
             ELSE tokenRequests'[r].resolved = << Fallback(tokenRequests[r].length) >>]_vars
\* t1 has settled with the extension's count 3; t2 (5 characters) was
\* cancelled, settled with 2, and its late response has been delivered
C40_Witness ==
    /\ tokenRequests["t1"].resolved = << 3 >>
    /\ tokenRequests["t2"].resolved = << 2 >> /\ tokenRequests["t2"].aborted
    /\ "t2" \in tokenMessages.answered /\ tokenMessages.posted = {}
    /\ pendingTokenRequests = {}

\* C29: with the mapping { "@/*": ["src/*"] } loaded, resolve("@/utils/bar")
\* returns <workspaceRoot>/src/utils/bar.ts when that file exists.
C29_AliasResolved ==
    [][\A c \in Callers :
          /\ Completes(c)
          /\ calls'[c].spec = AtUtilsBar
          /\ tsconfigCache = "loaded" /\ pathMappings = TsAlias.paths
          /\ Exists(world, SrcUtilsBar)
          => calls'[c].result = SrcUtilsBar]_vars

\* the file candidates of a base: verbatim, and with each suffix
FileCandidates(b) ==
    (IF extname(b) # "" THEN << b >> ELSE << >>)
    \o [i \in 1..Len(KnownSuffixes) |-> withExt(b, KnownSuffixes[i])]

\* the index file of a directory for each suffix, in the suffixes' order
IndexCandidates(b) ==
    [i \in 1..Len(KnownSuffixes) |-> Append(b, F("index", KnownSuffixes[i]))]

NoneExists(w, ps) == \A i \in 1..Len(ps) : ~Exists(w, ps[i])

\* C30: when the single base of a specifier exists under none of its file
\* candidates, resolve returns the first existing index file of the directory
\* in the order of the suffixes .ts .tsx .js .jsx .mjs .cjs; so an index file
\* that is the only existing candidate is returned, whatever its suffix.
C30_IndexSuffixOrder ==
    [][\A c \in Callers : Returns(c) =>
          LET bases == BasesInOrder(world.ws, pathMappings, baseUrl,
                                    calls[c].spec, calls[c].file)
          IN Len(bases) = 1 /\ NoneExists(world, FileCandidates(bases[1])) =>
                calls'[c].result = FirstCandidate(world, bases, IndexCandidates)]_vars


====
